---------------------------- MODULE Spec2Model ----------------------------
(***************************************************************************)
(* SGTE: document checklist, expediente workflow, student operations with  *)
(* the RUN validator, the audit log and the persistence gateway            *)
(* (get_session / get_session_context).                                    *)
(*                                                                         *)
(* A unit-of-work is a session obtained with get_session_context: the      *)
(* handler reads rows, assigns attributes or adds objects (kept in the     *)
(* session: autoflush=False), and the changes reach the database at        *)
(* commit.  Front ends run in separate processes over the same database    *)
(* file, so units-of-work of different clients interleave between a read   *)
(* and the commit that follows it.                                         *)
(***************************************************************************)
EXTENDS Naturals, Integers, Sequences, FiniteSets, TLC

VARIABLES estudiantes, documentos, proyectos, expedientes, bitacora,
          ses, nextPath, abiertas, respuesta

vars == <<estudiantes, documentos, proyectos, expedientes, bitacora,
          ses, nextPath, abiertas, respuesta>>

\* ------------------------------------------------------------ bounds

\* Number of file uploads (document upserts) started in a behaviour.
MaxUploads == 2

\* Number of free digits at the end of the RUN bodies given to validar_run
\* and formatear_run.
LargoCola == 1

\* Clients (front-end processes) sharing the database file.
Procs == {1, 2}

\* None for a nullable integer column (path, ids): 0.
NULL == 0

\* ------------------------------------------------------------ enums

TipoDocumento ==
  {"bienestar", "finanzas_titulo", "finanzas_licencia", "biblioteca",
   "sdt", "memorandum", "acta", "otro"}

DOCUMENTOS_REQUERIDOS ==
  <<"bienestar", "finanzas_titulo", "finanzas_licencia", "biblioteca",
    "sdt", "memorandum">>

RequeridosSet == {DOCUMENTOS_REQUERIDOS[i] : i \in 1..Len(DOCUMENTOS_REQUERIDOS)}

\* ------------------------------------------------------------ rows

\* Estudiante(run, nombres, ...): apellidos, carrera and modalidad are
\* written and read where nombres is and are left out.  updated_at is FALSE
\* while it is the time of creation.
NuevoEstudiante(run, nombres) ==
  [run |-> run, nombres |-> nombres, updated_at |-> FALSE]

\* Documento(estudiante_run, tipo, path, validado=False): a new row, its id
\* the next autoincrement value; validated_at / validated_by start NULL
\* (FALSE: not set).  path stands for (path, uploaded_at): both are set
\* from the same upload.
NuevoDocumento(docs, run, tipo, path) ==
  [id |-> Len(docs) + 1, estudiante_run |-> run, tipo |-> tipo,
   path |-> path, validado |-> FALSE,
   validated_at |-> FALSE, validated_by |-> FALSE]

\* session.query(Documento).filter(estudiante_run == run).all(): rows in
\* table (rowid) order.
DocsDe(docs, run) == SelectSeq(docs, LAMBDA d : d.estudiante_run = run)

MaxOf(S) == CHOOSE x \in S : \A y \in S : y <= x
MinOf(S) == CHOOSE x \in S : \A y \in S : x <= y

\* documentos_dict = {doc.tipo: doc for doc in docs}: a later row of the
\* same tipo replaces an earlier one.  documentos_dict.get(tipo) or NULL.
\* documentos_dict.get(tipo) is None: the row NoDoc, of id NULL.
NoDoc ==
  [id |-> NULL, estudiante_run |-> <<>>, tipo |-> "", path |-> NULL,
   validado |-> FALSE, validated_at |-> FALSE, validated_by |-> FALSE]

DictGet(ds, tipo) ==
  LET I == {i \in 1..Len(ds) : ds[i].tipo = tipo}
  IN  IF I = {} THEN NoDoc ELSE ds[MaxOf(I)]

\* ------------------------------------------------------------ identity

\* A string is the sequence of its characters.  The characters that occur:
\* the decimal digits, a character for which str.isdigit() is true and int()
\* raises ValueError (SUPERSCRIPT TWO), the letters of the check character
\* and of the names, the separators and the blank.
Digitos == <<"0", "1", "2", "3", "4", "5", "6", "7", "8", "9">>

Superindice == "^2"

Minusculas == <<"a", "e", "k", "n">>
Mayusculas == <<"A", "E", "K", "N">>

Rango(s) == {s[i] : i \in 1..Len(s)}

\* c.upper(), c.lower().
Upper(c) ==
  IF c \in Rango(Minusculas)
  THEN Mayusculas[CHOOSE i \in 1..Len(Minusculas) : Minusculas[i] = c]
  ELSE c

Lower(c) ==
  IF c \in Rango(Mayusculas)
  THEN Minusculas[CHOOSE i \in 1..Len(Mayusculas) : Mayusculas[i] = c]
  ELSE c

\* s.strip(): leading and trailing blanks removed.
Strip(s) ==
  LET I == {i \in 1..Len(s) : s[i] # " "}
  IN  IF I = {} THEN <<>> ELSE SubSeq(s, MinOf(I), MaxOf(I))

\* s.title(): the first letter of every word in upper case, the others in
\* lower case.
Title(s) ==
  [i \in 1..Len(s) |->
     IF i = 1 \/ s[i - 1] \notin Rango(Minusculas) \cup Rango(Mayusculas)
     THEN Upper(s[i]) ELSE Lower(s[i])]

\* run.upper().replace(".", "").replace("-", "").strip()
RunLimpio(run) ==
  Strip(SelectSeq([i \in 1..Len(run) |-> Upper(run[i])],
                  LAMBDA c : c \notin {".", "-"}))

\* cuerpo.isdigit(): not empty and every character a digit of some kind.
IsDigit(s) ==
  /\ s # <<>>
  /\ \A i \in 1..Len(s) : s[i] \in Rango(Digitos) \cup {Superindice}

\* int(c) for a decimal digit.
IntDe(c) == (CHOOSE i \in 1..Len(Digitos) : Digitos[i] = c) - 1

\* The loop "for c in reversed(cuerpo)" of validar_run, from position i
\* down to the first character.
RECURSIVE SumaLoop(_, _, _, _)
SumaLoop(cuerpo, i, suma, multiplo) ==
  IF i = 0 THEN suma
  ELSE SumaLoop(cuerpo, i - 1, suma + IntDe(cuerpo[i]) * multiplo,
                IF multiplo < 7 THEN multiplo + 1 ELSE 2)

\* Mutant: the remainder itself taken for the check digit.
DvCalculadoResto(cuerpo) ==
  LET resto == SumaLoop(cuerpo, Len(cuerpo), 0, 2) % 11
  IN  IF resto > 1 THEN Digitos[resto + 1]
      ELSE IF resto = 0 THEN "0" ELSE "K"

\* dv_calculado of validar_run for a body of decimal digits.
DvCalculado(cuerpo) ==
  LET resto == SumaLoop(cuerpo, Len(cuerpo), 0, 2) % 11
  IN  IF resto > 1 THEN Digitos[(11 - resto) + 1]
      ELSE IF resto = 0 THEN "0" ELSE "K"

\* validar_run(run): (valido, mensaje), or the exception int() raises on a
\* digit that is not decimal.  The message of a wrong check character
\* carries the expected one (dv).
validar_run(run) ==
  LET run_limpio == RunLimpio(run)
      cuerpo == SubSeq(run_limpio, 1, Len(run_limpio) - 1)
      dv_ingresado == run_limpio[Len(run_limpio)]
  IN  IF Len(run_limpio) < 8 \/ Len(run_limpio) > 9
      THEN [valido |-> FALSE, excepcion |-> "", dv |-> "",
            mensaje |-> "RUN debe tener entre 8 y 9 caracteres"]
      ELSE IF ~IsDigit(cuerpo)
      THEN [valido |-> FALSE, excepcion |-> "", dv |-> "",
            mensaje |-> "El cuerpo del RUN debe ser numerico"]
      ELSE IF \E i \in 1..Len(cuerpo) : cuerpo[i] \notin Rango(Digitos)
      THEN [valido |-> FALSE, excepcion |-> "ValueError", dv |-> "",
            mensaje |-> ""]
      ELSE IF dv_ingresado # DvCalculado(cuerpo)
      THEN [valido |-> FALSE, excepcion |-> "", dv |-> DvCalculado(cuerpo),
            mensaje |-> "Digito verificador incorrecto"]
      ELSE [valido |-> TRUE, excepcion |-> "", dv |-> "",
            mensaje |-> "RUN valido"]

\* The loop "for i, c in enumerate(reversed(cuerpo))" of formatear_run,
\* from position i (0 for the last character) on.
RECURSIVE PuntosLoop(_, _, _)
PuntosLoop(cuerpo, i, cuerpo_formateado) ==
  IF i = Len(cuerpo) THEN cuerpo_formateado
  ELSE LET c == cuerpo[Len(cuerpo) - i]
           conPunto == IF i > 0 /\ i % 3 = 0
                       THEN <<".">> \o cuerpo_formateado
                       ELSE cuerpo_formateado
       IN  PuntosLoop(cuerpo, i + 1, <<c>> \o conPunto)

\* run_limpio[-1] of formatear_run raises IndexError when nothing is left
\* of the string.
FormatearRunError(run) == RunLimpio(run) = <<>>

\* Mutant: the input formatted as it came, separators and case included.
FormatearRunSinLimpiar(run) ==
  IF run = <<>> THEN <<>>
  ELSE PuntosLoop(SubSeq(run, 1, Len(run) - 1), 0, <<>>)
         \o <<"-", run[Len(run)]>>

\* formatear_run(run) where it returns.
formatear_run(run) ==
  LET run_limpio == RunLimpio(run)
  IN  IF run_limpio = <<>> THEN <<>>
      ELSE PuntosLoop(SubSeq(run_limpio, 1, Len(run_limpio) - 1), 0, <<>>)
             \o <<"-", run_limpio[Len(run_limpio)]>>

\* ------------------------------------------------------------ inputs

\* The RUN 11.111.111-1.
Run1 == <<"1", "1", ".", "1", "1", "1", ".", "1", "1", "1", "-", "1">>

\* nombres of the students present from the start.
Nombre1 == <<"A", "n", "a">>

\* session.query(Estudiante.run): the keys of the table.
RunsDe(ests) == {e.run : e \in ests}

\* Who registers a document: POST /api/documentos/upload, the Streamlit
\* page's guardar_documento, the PDF splitter's registrar_documento_bd.
EntradasSubir == {"rest", "streamlit", "splitter"}

\* Who validates: PUT /api/documentos/{id}/validar, the page's
\* validar_documento.
EntradasValidar == {"rest", "streamlit"}

\* The categories uploaded in a behaviour: both financial variants, the
\* splitter's category and an optional one.
TiposSubidos == {"finanzas_titulo", "finanzas_licencia", "biblioteca", "acta"}

RECURSIVE DocsIniciales(_, _)
DocsIniciales(tipos, docs) ==
  IF tipos = <<>> THEN docs
  ELSE DocsIniciales(Tail(tipos),
         Append(docs, [NuevoDocumento(docs, Run1, Head(tipos), Len(docs) + 1)
                         EXCEPT !.validado = TRUE, !.validated_at = TRUE,
                                !.validated_by = TRUE]))

BaseDocs == DocsIniciales(<<"bienestar", "biblioteca", "sdt", "memorandum">>, <<>>)

\* ------------------------------------------------------------ checklist

Entrada(tipo, requerido, tiene, validado, doc) ==
  [tipo |-> tipo, requerido |-> requerido, tiene_documento |-> tiene,
   validado |-> validado, id |-> doc.id, path |-> doc.path]

\* The loop "for tipo_doc in DOCUMENTOS_REQUERIDOS" of
\* obtener_checklist_estudiante, from position i on; acc holds checklist
\* and documentos_requeridos_validados.
RECURSIVE RequeridosLoop(_, _, _)
RequeridosLoop(ds, i, acc) ==
  IF i > Len(DOCUMENTOS_REQUERIDOS) THEN acc
  ELSE
    LET tipo_doc == DOCUMENTOS_REQUERIDOS[i]
        doc == DictGet(ds, tipo_doc)
        tiene_documento == doc.id # NULL /\ doc.path # NULL
        validado == doc.id # NULL /\ doc.validado
        ft == DictGet(ds, "finanzas_titulo")
        fl == DictGet(ds, "finanzas_licencia")
        tiene_finanzas == ft.id # NULL \/ fl.id # NULL
        validado_finanzas ==
          (ft.id # NULL /\ ft.validado) \/ (fl.id # NULL /\ fl.validado)
        doc_finanzas == IF ft.id # NULL THEN ft ELSE fl
    IN  IF tipo_doc = "finanzas_titulo" THEN
          RequeridosLoop(ds, i + 1,
            [checklist |-> Append(acc.checklist,
               Entrada(tipo_doc, TRUE, tiene_finanzas, validado_finanzas,
                       doc_finanzas)),
             n |-> IF validado_finanzas THEN acc.n + 1 ELSE acc.n])
        ELSE IF tipo_doc = "finanzas_licencia" THEN
          RequeridosLoop(ds, i + 1, acc)
        ELSE
          RequeridosLoop(ds, i + 1,
            [checklist |-> Append(acc.checklist,
               Entrada(tipo_doc, TRUE, tiene_documento, validado, doc)),
             n |-> IF validado THEN acc.n + 1 ELSE acc.n])

\* The loop "for doc in docs: if doc.tipo not in DOCUMENTOS_REQUERIDOS".
RECURSIVE OpcionalesLoop(_, _, _)
OpcionalesLoop(ds, i, checklist) ==
  IF i > Len(ds) THEN checklist
  ELSE IF ds[i].tipo \notin RequeridosSet THEN
    OpcionalesLoop(ds, i + 1,
      Append(checklist,
        Entrada(ds[i].tipo, FALSE, ds[i].path # NULL, ds[i].validado, ds[i])))
  ELSE OpcionalesLoop(ds, i + 1, checklist)

\* Mutant: the financial pair counted as two requirements.
TotalRequeridosSinAjuste == Len(DOCUMENTOS_REQUERIDOS)

\* len(DOCUMENTOS_REQUERIDOS) - 1
TotalRequeridos == Len(DOCUMENTOS_REQUERIDOS) - 1

\* GET /api/documentos/checklist/{run}: 404 when the student does not exist.
ObtenerChecklist(ests, docs, run) ==
  IF run \notin RunsDe(ests) THEN [status |-> 404]
  ELSE
    LET ds  == DocsDe(docs, run)
        req == RequeridosLoop(ds, 1, [checklist |-> <<>>, n |-> 0])
        total_requeridos == TotalRequeridos
    IN  [status |-> 200,
         checklist |-> OpcionalesLoop(ds, 1, req.checklist),
         total_requeridos |-> total_requeridos,
         documentos_validados |-> req.n,
         documentos_faltantes |-> total_requeridos - req.n,
         listo_para_solicitar |-> (req.n = total_requeridos)]

\* The loop "for tipo_doc in DOCUMENTOS_REQUERIDOS" of
\* verificar_estudiante_listo, from position i on; n is
\* documentos_requeridos_validados.
RECURSIVE VerificarLoop(_, _, _)
VerificarLoop(ds, i, n) ==
  IF i > Len(DOCUMENTOS_REQUERIDOS) THEN n
  ELSE
    LET tipo_doc == DOCUMENTOS_REQUERIDOS[i]
        doc == DictGet(ds, tipo_doc)
        ft == DictGet(ds, "finanzas_titulo")
        fl == DictGet(ds, "finanzas_licencia")
        validado_finanzas ==
          (ft.id # NULL /\ ft.validado) \/ (fl.id # NULL /\ fl.validado)
    IN  IF tipo_doc = "finanzas_titulo" THEN
          VerificarLoop(ds, i + 1, IF validado_finanzas THEN n + 1 ELSE n)
        ELSE IF tipo_doc = "finanzas_licencia" THEN
          VerificarLoop(ds, i + 1, n)
        ELSE
          VerificarLoop(ds, i + 1,
                        IF doc.id # NULL /\ doc.validado THEN n + 1 ELSE n)

\* Mutant: a readiness check that counts a row only when it has a file.
VerificarEstudianteListoConArchivo(docs, run) ==
  LET ds == SelectSeq(DocsDe(docs, run), LAMBDA d : d.path # NULL)
  IN  VerificarLoop(ds, 1, 0) = Len(DOCUMENTOS_REQUERIDOS) - 1

\* verificar_estudiante_listo(run): the student's rows are read without
\* looking the student up.
VerificarEstudianteListo(docs, run) ==
  LET ds == DocsDe(docs, run)
      total_requeridos == Len(DOCUMENTOS_REQUERIDOS) - 1
  IN  VerificarLoop(ds, 1, 0) = total_requeridos

\* ------------------------------------------------------------ sessions

\* A client with no unit-of-work in progress.
Idle == [pc |-> "idle", op |-> "", entry |-> "", plan |-> <<>>, intentos |-> 0]

\* What the last finished request returned: the HTTP status (500 for an
\* exception) and, for an exception, where it came from.
Respuesta(op, status, error) == [op |-> op, status |-> status, error |-> error]

\* ------------------------------------------------------------ upsert

\* session.query(Documento).filter(estudiante_run == run, tipo == tipo)
\* .first(): the first matching row in table order, or NoDoc.
PrimerDocumento(docs, run, tipo) ==
  LET I == {i \in 1..Len(docs) :
              docs[i].estudiante_run = run /\ docs[i].tipo = tipo}
  IN  IF I = {} THEN NoDoc ELSE docs[MinOf(I)]

\* The body of the with-block of subir_documento / guardar_documento /
\* registrar_documento_bd up to the commit: what the session holds.
PlanSubir(docs, run, tipo, path) ==
  LET existente == PrimerDocumento(docs, run, tipo)
  IN  IF existente.id # NULL
      THEN [kind |-> "update", id |-> existente.id, run |-> run,
            tipo |-> tipo, path |-> path]
      ELSE [kind |-> "insert", id |-> NULL, run |-> run,
            tipo |-> tipo, path |-> path]

\* Mutant: a re-upload that keeps the row's validation.
AplicarSubirSinReset(docs, plan) ==
  IF plan.kind = "update"
  THEN [docs EXCEPT ![plan.id].path = plan.path]
  ELSE Append(docs, NuevoDocumento(docs, plan.run, plan.tipo, plan.path))

\* The commit of the upsert: UPDATE documentos SET path, uploaded_at,
\* validado WHERE id = ..., or INSERT.
AplicarSubir(docs, plan) ==
  IF plan.kind = "update"
  THEN [docs EXCEPT ![plan.id].path = plan.path,
                    ![plan.id].validado = FALSE]
  ELSE Append(docs, NuevoDocumento(docs, plan.run, plan.tipo, plan.path))

\* The id of the row the upsert wrote (doc_id of subir_documento).
IdSubido(docs, plan) ==
  IF plan.kind = "update" THEN plan.id ELSE Len(docs) + 1

\* The file is written to disk (a new name, nextPath), a session is
\* obtained and the existing row is looked up.  The three entry points
\* run the same statements; the splitter's category is always BIBLIOTECA.
SubirIniciar(p, entry, run, tipo) ==
  /\ ses[p].pc = "idle"
  /\ nextPath <= Len(BaseDocs) + MaxUploads
  /\ run \in RunsDe(estudiantes)
  /\ entry = "splitter" => tipo = "biblioteca"
  /\ ses' = [ses EXCEPT ![p] =
       [pc |-> "body", op |-> "subir", entry |-> entry,
        plan |-> PlanSubir(documentos, run, tipo, nextPath), intentos |-> 1]]
  /\ nextPath' = nextPath + 1
  /\ abiertas' = abiertas + 1
  /\ UNCHANGED <<estudiantes, documentos, proyectos, expedientes, bitacora,
                 respuesta>>

\* The commit of the upsert goes through when the UPDATE still matches its
\* row and the INSERT's estudiante_run still names a student
\* (PRAGMA foreign_keys=ON); else it raises, which is SubirFalla.
SubirAplicable(ests, docs, plan) ==
  IF plan.kind = "update"
  THEN plan.id \in 1..Len(docs) /\ docs[plan.id].id # NULL
  ELSE plan.run \in RunsDe(ests)

\* session.commit() (explicit in subir_documento, on leaving the block in
\* the other two), then session.close().
SubirCommit(p) ==
  /\ ses[p].pc = "body" /\ ses[p].op = "subir"
  /\ SubirAplicable(estudiantes, documentos, ses[p].plan)
  /\ documentos' = AplicarSubir(documentos, ses[p].plan)
  /\ respuesta' = Respuesta("subir", 200, "")
  /\ ses' = [ses EXCEPT ![p] = Idle]
  /\ abiertas' = abiertas - 1
  /\ UNCHANGED <<estudiantes, proyectos, expedientes, bitacora, nextPath>>

\* Mutant: a rollback that lets the pending writes through.
RollbackParcial(docs, plan) ==
  IF plan.kind = "update"
  THEN [docs EXCEPT ![plan.id].path = plan.path,
                    ![plan.id].validado = FALSE]
  ELSE Append(docs, NuevoDocumento(docs, plan.run, plan.tipo, plan.path))

\* session.rollback(): the pending writes of the session (plan) are
\* discarded; the table stays as committed.
Rollback(docs, plan) == docs

\* An exception inside the with-block after the row was modified or added,
\* or a commit that raises (the database stays locked past busy_timeout,
\* or any other storage error): get_session_context rolls back, closes and
\* re-raises; the handler answers 500 (False for the page and the splitter).
SubirFalla(p) ==
  /\ ses[p].pc = "body" /\ ses[p].op = "subir"
  /\ documentos' = Rollback(documentos, ses[p].plan)
  /\ respuesta' = Respuesta("subir", 500, "cuerpo")
  /\ ses' = [ses EXCEPT ![p] = Idle]
  /\ abiertas' = abiertas - 1
  /\ UNCHANGED <<estudiantes, proyectos, expedientes, bitacora, nextPath>>

\* ------------------------------------------------------------ validar

\* session.query(Documento).filter(Documento.id == doc_id).first()
DocumentoPorId(docs, doc_id) ==
  IF doc_id \in 1..Len(docs) THEN docs[doc_id] ELSE NoDoc

\* validar_documento.  PUT /api/documentos/{doc_id}/validar answers 404
\* when the row does not exist, else sets validado and stamps or clears
\* validated_at and validated_by; the Streamlit page's function returns
\* False (here 404) when the row does not exist, else sets validado and
\* validated_at only.  Either reads only the row's existence, which no
\* other request changes, and writes by id: the unit-of-work is one step,
\* its commit.
ValidarDocumento(docs, entry, doc_id, validado) ==
  IF DocumentoPorId(docs, doc_id).id = NULL
  THEN [status |-> 404, docs |-> docs]
  ELSE IF entry = "rest"
  THEN [status |-> 200,
        docs |-> [docs EXCEPT ![doc_id].validado = validado,
                              ![doc_id].validated_at = validado,
                              ![doc_id].validated_by = validado]]
  ELSE [status |-> 200,
        docs |-> [docs EXCEPT ![doc_id].validado = validado,
                              ![doc_id].validated_at = validado]]

Validar(entry, doc_id, validado) ==
  LET r == ValidarDocumento(documentos, entry, doc_id, validado)
  IN  /\ documentos' = r.docs
      /\ respuesta' = Respuesta("validar", r.status, "")
      /\ UNCHANGED <<estudiantes, proyectos, expedientes, bitacora, ses,
                     nextPath, abiertas>>

\* validar_documento on an existing row when session.commit() raises (the
\* database stays locked past busy_timeout, or any other storage error):
\* get_session_context rolls back and re-raises; answered 500 (False for
\* the page).
ValidarFalla(entry, doc_id) ==
  /\ DocumentoPorId(documentos, doc_id).id # NULL
  /\ documentos' = documentos
  /\ respuesta' = Respuesta("validar", 500, "commit")
  /\ UNCHANGED <<estudiantes, proyectos, expedientes, bitacora, ses,
                 nextPath, abiertas>>

\* ------------------------------------------------------------ SpecDoc

\* One student whose four single-variant required documents were uploaded
\* and validated (upsert, then validar, one after the other).
InitDoc ==
  /\ estudiantes = {NuevoEstudiante(Run1, Nombre1)}
  /\ documentos = BaseDocs
  /\ proyectos = <<>>
  /\ expedientes = <<>>
  /\ bitacora = <<>>
  /\ ses = [p \in Procs |-> Idle]
  /\ nextPath = Len(BaseDocs) + 1
  /\ abiertas = 0
  /\ respuesta = Respuesta("", 0, "")

NextDoc ==
  \/ \E p \in Procs, entry \in EntradasSubir, tipo \in TiposSubidos :
       SubirIniciar(p, entry, Run1, tipo)
  \/ \E p \in Procs : SubirCommit(p)
  \/ \E p \in Procs : SubirFalla(p)
  \/ \E id \in 1..(Len(documentos) + 1), v \in BOOLEAN :
       Validar("rest", id, v)

SpecDoc == InitDoc /\ [][NextDoc]_vars

\* ------------------------------------------------------------ get_session

\* _get_max_retries(): 5 unless the secrets file sets database.max_retries.
MaxRetries == 5

\* Mutant: a retry policy with no stop condition.
PuedeReintentarSinTope(intentos) == TRUE

\* stop=stop_after_attempt(_get_max_retries()): after a failed attempt
\* another one follows while fewer than max_retries were made.
PuedeReintentar(intentos) == intentos < MaxRetries

\* The upload a client asked for, before the block looked the row up.
Pedido(run, tipo, path) ==
  [kind |-> "pedido", id |-> NULL, run |-> run, tipo |-> tipo, path |-> path]

\* get_session_context is entered and get_session makes its first attempt:
\* session = factory().  (The file was written to disk before.)
GetSession(p, entry, run, tipo) ==
  /\ ses[p].pc = "idle"
  /\ nextPath <= Len(BaseDocs) + MaxUploads
  /\ run \in RunsDe(estudiantes)
  /\ entry = "splitter" => tipo = "biblioteca"
  /\ ses' = [ses EXCEPT ![p] =
       [pc |-> "probe", op |-> "subir", entry |-> entry,
        plan |-> Pedido(run, tipo, nextPath), intentos |-> 1]]
  /\ nextPath' = nextPath + 1
  /\ abiertas' = abiertas + 1
  /\ UNCHANGED <<estudiantes, documentos, proyectos, expedientes, bitacora,
                 respuesta>>

\* session.execute(text("SELECT 1")) returns: get_session returns the
\* session, the block starts and looks the existing row up.
ProbeOk(p) ==
  /\ ses[p].pc = "probe"
  /\ ses' = [ses EXCEPT ![p].pc = "body",
                        ![p].plan = PlanSubir(documentos, @.run, @.tipo, @.path)]
  /\ UNCHANGED <<estudiantes, documentos, proyectos, expedientes, bitacora,
                 nextPath, abiertas, respuesta>>

\* The probe raises sqlite3.OperationalError (database is locked): the
\* except clause closes the session and re-raises; the retry decorator
\* sleeps and tries again while attempts remain, else the error leaves
\* get_session and get_session_context (the call is outside its try).
ProbeBloqueada(p) ==
  /\ ses[p].pc = "probe"
  /\ abiertas' = abiertas - 1
  /\ IF PuedeReintentar(ses[p].intentos)
     THEN /\ ses' = [ses EXCEPT ![p].pc = "espera"]
          /\ UNCHANGED respuesta
     ELSE /\ ses' = [ses EXCEPT ![p] = Idle]
          /\ respuesta' = Respuesta(ses[p].op, 500, "bloqueada")
  /\ UNCHANGED <<estudiantes, documentos, proyectos, expedientes, bitacora,
                 nextPath>>

\* After the backoff the next attempt: a new session = factory().
Reintento(p) ==
  /\ ses[p].pc = "espera"
  /\ ses' = [ses EXCEPT ![p].pc = "probe", ![p].intentos = @ + 1]
  /\ abiertas' = abiertas + 1
  /\ UNCHANGED <<estudiantes, documentos, proyectos, expedientes, bitacora,
                 nextPath, respuesta>>

\* Mutant: a retry policy that retries on every exception.
ProbeOtraExcepcionReintenta(p) ==
  /\ ses[p].pc = "probe"
  /\ IF PuedeReintentar(ses[p].intentos)
     THEN /\ ses' = [ses EXCEPT ![p].pc = "espera"]
          /\ UNCHANGED respuesta
     ELSE /\ ses' = [ses EXCEPT ![p] = Idle]
          /\ respuesta' = Respuesta(ses[p].op, 500, "otra")
  /\ UNCHANGED <<estudiantes, documentos, proyectos, expedientes, bitacora,
                 nextPath, abiertas>>

\* The probe raises an exception that is not sqlite3.OperationalError:
\* no except clause matches, the session is not closed, the decorator does
\* not retry and the exception leaves get_session.
ProbeOtraExcepcion(p) ==
  /\ ses[p].pc = "probe"
  /\ ses' = [ses EXCEPT ![p] = Idle]
  /\ respuesta' = Respuesta(ses[p].op, 500, "otra")
  /\ UNCHANGED <<estudiantes, documentos, proyectos, expedientes, bitacora,
                 nextPath, abiertas>>

\* ------------------------------------------------------------ SpecGateway

\* The categories uploaded through the gateway specification.
TiposGateway == {"finanzas_titulo", "biblioteca"}

NextGateway ==
  \/ \E p \in Procs, entry \in EntradasSubir, tipo \in TiposGateway :
       GetSession(p, entry, Run1, tipo)
  \/ \E p \in Procs : ProbeOk(p)
  \/ \E p \in Procs : ProbeBloqueada(p)
  \/ \E p \in Procs : Reintento(p)
  \/ \E p \in Procs : ProbeOtraExcepcion(p)
  \/ \E p \in Procs : SubirCommit(p)
  \/ \E p \in Procs : SubirFalla(p)

SpecGateway == InitDoc /\ [][NextGateway]_vars

\* ------------------------------------------------------------ expedientes

EstadoExpediente ==
  {"pendiente", "en_proceso", "listo_envio", "enviado", "aprobado", "titulado"}

\* The mapped attributes of class Proyecto (columns and relationships).
ProyectoAtributos ==
  {"id", "estudiante_run1", "estudiante_run2", "semestre",
   "modalidad_titulacion", "titulo", "link_documento", "created_at",
   "updated_at", "estudiante_1", "estudiante_2", "comision", "expediente",
   "hitos"}

\* The RUNs 22.222.222-2, 33.333.333-3 and 44.444.444-4.
Run2 == <<"2", "2", ".", "2", "2", "2", ".", "2", "2", "2", "-", "2">>
Run3 == <<"3", "3", ".", "3", "3", "3", ".", "3", "3", "3", "-", "3">>
\* A RUN with no Estudiante row.
RunAusente == <<"4", "4", ".", "4", "4", "4", ".", "4", "4", "4", "-", "4">>

\* Proyecto(estudiante_run1=run): created_at grows with the id;
\* estudiante_run2 is the empty string when NULL.
NuevoProyecto(proys, run) ==
  [id |-> Len(proys) + 1, estudiante_run1 |-> run, estudiante_run2 |-> <<>>,
   created_at |-> Len(proys) + 1]

\* Expediente(proyecto_id): estado defaults to PENDIENTE, titulado to False,
\* observaciones and fecha_envio to NULL (fecha_envio FALSE: not set).
\* updated_at is FALSE while it is the time of creation, TRUE once an
\* update stamped it.
NuevoExpediente(exps, proyecto_id) ==
  [id |-> Len(exps) + 1, proyecto_id |-> proyecto_id, estado |-> "pendiente",
   observaciones |-> NULL, fecha_envio |-> FALSE, titulado |-> FALSE,
   updated_at |-> FALSE]

NoExpediente == [NuevoExpediente(<<>>, NULL) EXCEPT !.id = NULL]

NoProyecto == [NuevoProyecto(<<>>, <<>>) EXCEPT !.id = NULL]

\* session.query(Expediente).filter(Expediente.id == expediente_id).first()
ExpedientePorId(exps, expediente_id) ==
  IF expediente_id \in 1..Len(exps) THEN exps[expediente_id] ELSE NoExpediente

\* session.query(Expediente).filter(proyecto_id == ...).first()
ExpedienteDeProyecto(exps, proyecto_id) ==
  LET I == {i \in 1..Len(exps) : exps[i].proyecto_id = proyecto_id}
  IN  IF I = {} THEN NoExpediente ELSE exps[MinOf(I)]

\* Mutant: an unknown status is answered with 400 after the other fields
\* of the request were written and committed.
ActualizarExpedienteParcial(exps, expediente_id, estado, observaciones, titulado) ==
  IF expediente_id \notin 1..Len(exps)
  THEN [status |-> 404, exps |-> exps]
  ELSE
    LET e0 == exps[expediente_id]
        e1 == IF estado \in EstadoExpediente
              THEN [e0 EXCEPT !.estado = estado] ELSE e0
        e2 == IF observaciones # <<>>
              THEN [e1 EXCEPT !.observaciones = observaciones[1]] ELSE e1
        e3 == IF titulado # <<>>
              THEN [e2 EXCEPT !.titulado = titulado[1]] ELSE e2
        e4 == [e3 EXCEPT !.updated_at = TRUE]
    IN  [status |-> IF estado # "" /\ estado \notin EstadoExpediente
                    THEN 400 ELSE 200,
         exps |-> [exps EXCEPT ![expediente_id] = e4]]

\* PUT /api/expedientes/{expediente_id}.  An optional field of the request
\* is a sequence of at most one value; estado is a string, "" when absent.
\* 404 and 400 are raised inside the block, before any assignment, and the
\* block rolls back.
ActualizarExpedienteRes(exps, expediente_id, estado, observaciones, titulado) ==
  IF ExpedientePorId(exps, expediente_id).id = NULL
  THEN [status |-> 404, exps |-> exps]
  ELSE IF estado # "" /\ estado \notin EstadoExpediente
  THEN [status |-> 400, exps |-> exps]
  ELSE
    LET e0 == exps[expediente_id]
        e1 == IF estado # "" THEN [e0 EXCEPT !.estado = estado] ELSE e0
        e2 == IF observaciones # <<>>
              THEN [e1 EXCEPT !.observaciones = observaciones[1]] ELSE e1
        e3 == IF titulado # <<>>
              THEN [e2 EXCEPT !.titulado = titulado[1]] ELSE e2
        e4 == [e3 EXCEPT !.updated_at = TRUE]
    IN  [status |-> 200, exps |-> [exps EXCEPT ![expediente_id] = e4]]

ActualizarExpediente(expediente_id, estado, observaciones, titulado) ==
  LET r == ActualizarExpedienteRes(expedientes, expediente_id, estado,
                                   observaciones, titulado)
  IN  /\ expedientes' = r.exps
      /\ respuesta' = Respuesta("actualizar_expediente", r.status, "")
      /\ UNCHANGED <<estudiantes, documentos, proyectos, bitacora, ses,
                     nextPath, abiertas>>

\* Where the storage can raise in actualizar_expediente once the fields are
\* assigned: at session.commit(), or after it, at the SELECT that reloads
\* the row expired by the commit when the answer reads expediente.id,
\* expediente.estado and expediente.titulado.
LugaresDeFalla == {"commit", "recarga"}

\* PUT /api/expedientes/{expediente_id} when the storage raises.  At the
\* commit the block rolls back and nothing is written; at the reload the
\* commit has been made and the rollback of the block finds nothing to
\* undo.  Either way the exception leaves the block and is answered 500.
ActualizarExpedienteFalla(expediente_id, estado, observaciones, titulado, donde) ==
  LET r == ActualizarExpedienteRes(expedientes, expediente_id, estado,
                                   observaciones, titulado)
  IN  /\ r.status = 200
      /\ expedientes' = IF donde = "commit" THEN expedientes ELSE r.exps
      /\ respuesta' = Respuesta("actualizar_expediente", 500, donde)
      /\ UNCHANGED <<estudiantes, documentos, proyectos, bitacora, ses,
                     nextPath, abiertas>>

\* session.query(Proyecto).filter(Proyecto.<attr> == run): the class
\* attribute is evaluated first and raises AttributeError when Proyecto has
\* no such attribute; else the matching rows.
ConsultaProyecto(proys, attr, run) ==
  IF attr \notin ProyectoAtributos
  THEN [error |-> TRUE, rows |-> <<>>]
  ELSE [error |-> FALSE, rows |-> SelectSeq(proys, LAMBDA pr : pr[attr] = run)]

\* The loop "for run in request.runs" of cambiar_estado_masivo, from
\* position i on.
RECURSIVE MasivoLoop(_, _, _, _, _, _)
MasivoLoop(exps, proys, runs, i, estado, actualizados) ==
  IF i > Len(runs)
  THEN [error |-> FALSE, exps |-> exps, actualizados |-> actualizados]
  ELSE
    LET q == ConsultaProyecto(proys, "estudiante_run", runs[i])
    IN  IF q.error
        THEN [error |-> TRUE, exps |-> exps, actualizados |-> actualizados]
        ELSE IF q.rows = <<>>
        THEN MasivoLoop(exps, proys, runs, i + 1, estado, actualizados)
        ELSE
          LET expediente == ExpedienteDeProyecto(exps, Head(q.rows).id)
          IN  IF expediente.id = NULL
              THEN MasivoLoop(exps, proys, runs, i + 1, estado, actualizados)
              ELSE MasivoLoop([exps EXCEPT ![expediente.id].estado = estado,
                                           ![expediente.id].updated_at = TRUE],
                              proys, runs, i + 1, estado, actualizados + 1)

\* POST /api/operaciones/cambiar-estado: 400 for an empty list or an
\* unknown status; an exception in the block rolls back and answers 500;
\* else the updates are committed and the count returned.
CambiarEstadoMasivoRes(exps, proys, runs, estado) ==
  IF runs = <<>> \/ estado \notin EstadoExpediente
  THEN [status |-> 400, exps |-> exps, actualizados |-> 0]
  ELSE
    LET r == MasivoLoop(exps, proys, runs, 1, estado, 0)
    IN  IF r.error
        THEN [status |-> 500, exps |-> exps, actualizados |-> 0]
        ELSE [status |-> 200, exps |-> r.exps, actualizados |-> r.actualizados]

\* The result carries the count only; the request is kept with it.
CambiarEstadoMasivo(runs, estado) ==
  LET r == CambiarEstadoMasivoRes(expedientes, proyectos, runs, estado)
  IN  /\ expedientes' = r.exps
      /\ respuesta' = [op |-> "cambiar_estado", status |-> r.status,
                       error |-> "", runs |-> runs, estado |-> estado,
                       actualizados |-> r.actualizados]
      /\ UNCHANGED <<estudiantes, documentos, proyectos, bitacora, ses,
                     nextPath, abiertas>>

\* ------------------------------------------------------------ correo

\* order_by(Proyecto.created_at.desc()).first()
ProyectoMasReciente(rows) ==
  IF rows = <<>> THEN NoProyecto
  ELSE LET I == {i \in 1..Len(rows) :
                   \A j \in 1..Len(rows) : rows[j].created_at <= rows[i].created_at}
       IN  rows[MinOf(I)]

\* log_user_action(tabla, registro_id, accion, descripcion): a Bitacora row.
EntradaBitacora(tabla, registro_id, accion) ==
  [tabla |-> tabla, registro_id |-> registro_id, accion |-> accion]

\* create_engine(pool_size=1, max_overflow=0): the connections a process
\* can have checked out at once.
PoolSize == 1
MaxOverflow == 0

\* Mutant: an audit unit-of-work that always finds a connection.
LogUserActionConConexion(bit, en_uso, tabla, registro_id, accion) ==
  [ok |-> TRUE,
   bitacora |-> Append(bit, EntradaBitacora(tabla, registro_id, accion))]

\* log_user_action(tabla, registro_id, accion, ...) called by a process
\* that has en_uso connections checked out.  It opens a unit-of-work of
\* its own: with no connection left in the pool get_session raises (the
\* pool's timeout), "except Exception" logs it and the function returns
\* False (ok); else the row is added and committed.  No exception leaves
\* the function.
LogUserAction(bit, en_uso, tabla, registro_id, accion) ==
  IF en_uso >= PoolSize + MaxOverflow
  THEN [ok |-> FALSE, bitacora |-> bit]
  ELSE [ok |-> TRUE,
        bitacora |-> Append(bit, EntradaBitacora(tabla, registro_id, accion))]

\* The block of _actualizar_estado_expediente once the project query is
\* built: the expediente of the most recent project becomes ENVIADO with
\* fecha_envio set, and log_user_action is called, inside the block (one
\* connection checked out), when a project exists.
MarcarEnviado(exps, bit, rows) ==
  LET proyecto == ProyectoMasReciente(rows)
      expediente == ExpedienteDeProyecto(exps, proyecto.id)
  IN  IF proyecto.id = NULL THEN [exps |-> exps, bitacora |-> bit]
      ELSE [exps |-> IF expediente.id = NULL THEN exps
                     ELSE [exps EXCEPT ![expediente.id].estado = "enviado",
                                       ![expediente.id].fecha_envio = TRUE,
                                       ![expediente.id].updated_at = TRUE],
            bitacora |-> LogUserAction(bit, 1, "expedientes", proyecto.id,
                                       "UPDATE").bitacora]

\* Mutant: the project looked up through its first-author column and the
\* audit entry written through a connection of its own.
ActualizarEstadoExpedienteAuditado(exps, bit, proys, run) ==
  LET q == ConsultaProyecto(proys, "estudiante_run1", run)
      proyecto == ProyectoMasReciente(q.rows)
      expediente == ExpedienteDeProyecto(exps, proyecto.id)
  IN  IF proyecto.id = NULL THEN [exps |-> exps, bitacora |-> bit]
      ELSE [exps |-> IF expediente.id = NULL THEN exps
                     ELSE [exps EXCEPT ![expediente.id].estado = "enviado",
                                       ![expediente.id].fecha_envio = TRUE,
                                       ![expediente.id].updated_at = TRUE],
            bitacora |-> LogUserAction(bit, 0, "expedientes", proyecto.id,
                                       "UPDATE").bitacora]

\* _actualizar_estado_expediente(run): everything runs inside
\* try / except Exception, which logs the error and returns; an exception
\* raised by the query leaves the block before anything is written.
ActualizarEstadoExpediente(exps, bit, proys, run) ==
  LET q == ConsultaProyecto(proys, "estudiante_run", run)
  IN  IF q.error THEN [exps |-> exps, bitacora |-> bit]
      ELSE MarcarEnviado(exps, bit, q.rows)

\* What Outlook does with one mail: mail.Save() / mail.Send() returns, a
\* COM call raises, or Outlook is busy (OutlookBusyException).
Envios == {"ok", "error", "busy"}

\* Mutant: the status update made whatever the mode and the outcome of the
\* send, through the project's first-author column.
EnviarCorreoSinGuardas(exps, bit, proys, run, solo_borrador, envio) ==
  LET r == MarcarEnviado(exps, bit,
             ConsultaProyecto(proys, "estudiante_run1", run).rows)
  IN  [exps |-> r.exps, bitacora |-> r.bitacora,
       exito |-> envio = "ok", busy |-> envio = "busy"]

\* OutlookMailer.enviar_correo(datos, solo_borrador).
EnviarCorreo(exps, bit, proys, run, solo_borrador, envio) ==
  IF envio # "ok"
  THEN [exps |-> exps, bitacora |-> bit, exito |-> FALSE,
        busy |-> envio = "busy"]
  ELSE IF solo_borrador
  THEN [exps |-> exps, bitacora |-> bit, exito |-> TRUE, busy |-> FALSE]
  ELSE LET r == ActualizarEstadoExpediente(exps, bit, proys, run)
       IN  [exps |-> r.exps, bitacora |-> r.bitacora, exito |-> TRUE,
            busy |-> FALSE]

\* The loop "for i, run in enumerate(runs)" of enviar_batch, from position
\* i on.  envios[i] is what Outlook does with the mail of runs[i]; enviados
\* collects the runs whose mail.Send() returned in non-draft mode.
RECURSIVE BatchLoop(_, _, _, _, _, _, _, _)
BatchLoop(ests, proys, runs, envios, solo_borrador, i, exps, acc) ==
  IF i > Len(runs) THEN [exps |-> exps, res |-> acc]
  ELSE IF runs[i] \notin RunsDe(ests)
  THEN BatchLoop(ests, proys, runs, envios, solo_borrador, i + 1, exps,
                 [acc EXCEPT !.fallidos = @ + 1,
                             !.no_encontrados = @ \cup {runs[i]}])
  ELSE
    LET r == EnviarCorreo(exps, acc.bitacora, proys, runs[i], solo_borrador,
                          envios[i])
    IN  IF r.busy
        THEN [exps |-> r.exps,
              res |-> [acc EXCEPT !.interrumpido = TRUE,
                                  !.bitacora = r.bitacora]]
        ELSE BatchLoop(ests, proys, runs, envios, solo_borrador, i + 1, r.exps,
               [acc EXCEPT
                  !.exitosos = IF r.exito THEN @ + 1 ELSE @,
                  !.fallidos = IF r.exito THEN @ ELSE @ + 1,
                  !.enviados = IF r.exito /\ ~solo_borrador
                               THEN @ \cup {runs[i]} ELSE @,
                  !.bitacora = r.bitacora])

\* OutlookMailer.enviar_batch(runs, solo_borrador=...): each student is
\* looked up in a unit-of-work of its own and each status update is one
\* more; _init_outlook raising ends the batch before the first mail.
EnviarBatch(runs, solo_borrador, init, envios) ==
  LET acc0 == [exitosos |-> 0, fallidos |-> 0, interrumpido |-> init # "ok",
               enviados |-> {}, no_encontrados |-> {}, bitacora |-> bitacora]
      r == IF init = "ok"
           THEN BatchLoop(estudiantes, proyectos, runs, envios, solo_borrador,
                          1, expedientes, acc0)
           ELSE [exps |-> expedientes, res |-> acc0]
  IN  /\ expedientes' = r.exps
      /\ bitacora' = r.res.bitacora
      /\ respuesta' = [op |-> "enviar_batch", status |-> 200, error |-> "",
                       solo_borrador |-> solo_borrador, total |-> Len(runs),
                       exitosos |-> r.res.exitosos,
                       fallidos |-> r.res.fallidos,
                       interrumpido |-> r.res.interrumpido,
                       enviados |-> r.res.enviados,
                       no_encontrados |-> r.res.no_encontrados]
      /\ UNCHANGED <<estudiantes, documentos, proyectos, ses, nextPath,
                     abiertas>>

\* ------------------------------------------------------------ SpecExp

\* Length of the list of a bulk status change.
MaxRuns == 2

\* Length of the list of an email batch.
MaxCorreos == 2

SeqsHasta(S, n) == UNION {[1..k -> S] : k \in 0..n}

\* Run1 has a project with an expediente, Run2 a project without one, Run3
\* no project; RunAusente is not a student.
RunsEntrada == {Run1, Run2, Run3, RunAusente}

\* The runs of an email batch: a student with an expediente and a RUN that
\* is not a student.
RunsCorreo == {Run1, RunAusente}

\* estado of an update request: absent, two status tags, an unknown tag.
EstadosEntrada == {"", "en_proceso", "titulado", "invalido"}

InitExp ==
  /\ estudiantes = {NuevoEstudiante(r, Nombre1) : r \in {Run1, Run2, Run3}}
  /\ documentos = <<>>
  /\ proyectos = LET p1 == <<NuevoProyecto(<<>>, Run1)>>
                 IN  Append(p1, NuevoProyecto(p1, Run2))
  /\ expedientes = <<NuevoExpediente(<<>>, 1)>>
  /\ bitacora = <<>>
  /\ ses = [p \in Procs |-> Idle]
  /\ nextPath = 1
  /\ abiertas = 0
  /\ respuesta = Respuesta("", 0, "")

NextExp ==
  \/ \E id \in 1..(Len(expedientes) + 1), estado \in EstadosEntrada,
        obs \in {<<>>, <<1>>}, tit \in {<<>>, <<TRUE>>, <<FALSE>>} :
       ActualizarExpediente(id, estado, obs, tit)
  \/ \E runs \in SeqsHasta(RunsEntrada, MaxRuns),
        estado \in {"enviado", "invalido"} :
       CambiarEstadoMasivo(runs, estado)
  \/ \E runs \in SeqsHasta(RunsCorreo, MaxCorreos), solo \in BOOLEAN,
        init \in {"ok", "error"} :
       \E envios \in IF init = "ok" THEN [1..Len(runs) -> Envios] ELSE {<<>>} :
         EnviarBatch(runs, solo, init, envios)

SpecExp == InitExp /\ [][NextExp]_vars

\* ------------------------------------------------------------ SpecCorreo

\* The runs of the batches of SpecCorreo: a student with an expediente, a
\* student whose project has none and a RUN that is not a student.
RunsCorreoProyecto == {Run1, Run2, RunAusente}

\* Email batches over the three kinds of student, with updates of the one
\* expediente in between.
NextCorreo ==
  \/ \E runs \in SeqsHasta(RunsCorreoProyecto, MaxCorreos), solo \in BOOLEAN,
        init \in {"ok", "error"} :
       \E envios \in IF init = "ok" THEN [1..Len(runs) -> Envios] ELSE {<<>>} :
         EnviarBatch(runs, solo, init, envios)
  \/ \E estado \in EstadoExpediente :
       ActualizarExpediente(1, estado, <<>>, <<>>)

SpecCorreo == InitExp /\ [][NextCorreo]_vars

\* ------------------------------------------------------------ SpecVal

\* Uploads from the Streamlit page and validations through both
\* implementations of validar_documento.
NextVal ==
  \/ \E p \in Procs : SubirIniciar(p, "streamlit", Run1, "acta")
  \/ \E p \in Procs : SubirCommit(p)
  \/ \E entry \in EntradasValidar, id \in 1..(Len(documentos) + 1),
        v \in BOOLEAN :
       Validar(entry, id, v)

SpecVal == InitDoc /\ [][NextVal]_vars

\* ------------------------------------------------------------ SpecTrans

\* Status changes with every status tag as target, one expediente at a
\* time and in bulk.
NextTrans ==
  \/ \E id \in 1..(Len(expedientes) + 1), estado \in EstadoExpediente :
       ActualizarExpediente(id, estado, <<>>, <<>>)
  \/ \E runs \in SeqsHasta(RunsEntrada, MaxRuns), estado \in EstadoExpediente :
       CambiarEstadoMasivo(runs, estado)

SpecTrans == InitExp /\ [][NextTrans]_vars

\* ------------------------------------------------------------ students

\* What crear_estudiante, actualizar_estudiante and eliminar_estudiante
\* (services/estudiantes.py, called by the Estudiantes page) return for the
\* RUN they were given: status 200 for (True, mensaje), 400 for
\* (False, mensaje) with error the message, 500 for an exception that
\* leaves the function with error its type.
RespuestaEst(op, status, error, run) ==
  [op |-> op, status |-> status, error |-> error, run |-> run]

\* Connections of its pool a client has checked out: one while its
\* unit-of-work is open.
EnUso(s) == IF s.pc = "body" THEN 1 ELSE 0

\* A request that ends without leaving a unit-of-work open.
EstFin(r) ==
  /\ respuesta' = r
  /\ UNCHANGED <<estudiantes, documentos, proyectos, expedientes, bitacora,
                 ses, nextPath, abiertas>>

\* A request whose unit-of-work stays open with the pending write plan.
EstAbrir(p, op, plan) ==
  /\ ses' = [ses EXCEPT ![p] = [pc |-> "body", op |-> op, entry |-> "",
                                plan |-> plan, intentos |-> 1]]
  /\ abiertas' = abiertas + 1
  /\ UNCHANGED <<estudiantes, documentos, proyectos, expedientes, bitacora,
                 nextPath, respuesta>>

\* The unit-of-work of p ends (commit or rollback, then close) with the
\* tables and the answer of r.
EstCerrar(p, r) ==
  /\ estudiantes' = r.ests
  /\ documentos' = r.docs
  /\ proyectos' = r.proys
  /\ expedientes' = r.exps
  /\ bitacora' = r.bitacora
  /\ respuesta' = RespuestaEst(ses[p].op, r.status, r.error, ses[p].plan.run)
  /\ ses' = [ses EXCEPT ![p] = Idle]
  /\ abiertas' = abiertas - 1
  /\ UNCHANGED nextPath

\* get_session() of the function's unit-of-work: a session, or the
\* exception left when the database stays locked.
Sesiones == {"ok", "bloqueada"}

\* crear_estudiante(run, nombres, ...) up to session.add: validation and
\* formatting outside the try, then the lookup of the formatted RUN.
CrearEstudianteIniciar(p, run, nombres, sesion) ==
  /\ ses[p].pc = "idle"
  /\ LET op == "crear_estudiante"
         v == validar_run(run)
         run_formateado == formatear_run(run)
     IN  IF v.excepcion # ""
         THEN EstFin(RespuestaEst(op, 500, v.excepcion, run))
         ELSE IF ~v.valido
         THEN EstFin(RespuestaEst(op, 400, v.mensaje, run))
         ELSE IF sesion # "ok"
         THEN EstFin(RespuestaEst(op, 400,
                "Error de base de datos: OperationalError", run))
         ELSE IF run_formateado \in RunsDe(estudiantes)
         THEN EstFin(RespuestaEst(op, 400, "Ya existe un estudiante", run))
         ELSE EstAbrir(p, op, [run |-> run_formateado,
                               nombres |-> Title(Strip(nombres))])

\* session.flush() (INSERT: the primary key rejects a RUN that is in the
\* table by now, IntegrityError), log_user_action, whose result is not
\* read, commit on leaving the block.  An exception is rolled back and
\* answered (False, mensaje).
CrearEstudianteFin(ests, bit, en_uso, plan) ==
  LET log == LogUserAction(bit, en_uso, "estudiantes", plan.run, "CREATE")
  IN  IF plan.run \in RunsDe(ests)
      THEN [ests |-> ests, bitacora |-> bit, status |-> 400,
            error |-> "Error de base de datos: IntegrityError"]
      ELSE [ests |-> ests \cup {NuevoEstudiante(plan.run, plan.nombres)},
            bitacora |-> log.bitacora, status |-> 200,
            error |-> "Estudiante creado exitosamente"]

CrearEstudianteCommit(p) ==
  /\ ses[p].pc = "body" /\ ses[p].op = "crear_estudiante"
  /\ LET r == CrearEstudianteFin(estudiantes, bitacora, EnUso(ses[p]),
                                 ses[p].plan)
     IN  EstCerrar(p, [ests |-> r.ests, docs |-> documentos,
                       proys |-> proyectos, exps |-> expedientes,
                       bitacora |-> r.bitacora, status |-> r.status,
                       error |-> r.error])

\* actualizar_estudiante(run, datos) up to the assignments: formatear_run
\* outside the try, then the lookup.  datos holds at most the key nombres.
ActualizarEstudianteIniciar(p, run, datos, sesion) ==
  /\ ses[p].pc = "idle"
  /\ LET op == "actualizar_estudiante"
         run_formateado == formatear_run(run)
     IN  IF FormatearRunError(run)
         THEN EstFin(RespuestaEst(op, 500, "IndexError", run))
         ELSE IF sesion # "ok"
         THEN EstFin(RespuestaEst(op, 400, "Error: OperationalError", run))
         ELSE IF run_formateado \notin RunsDe(estudiantes)
         THEN EstFin(RespuestaEst(op, 400, "no encontrado", run))
         ELSE EstAbrir(p, op,
                [run |-> run_formateado,
                 datos |-> IF datos = <<>> THEN <<>>
                           ELSE <<Title(Strip(datos[1]))>>])

\* The row of the student after the assignments of actualizar_estudiante.
EstudianteEscrito(e, datos) ==
  [e EXCEPT !.nombres = IF datos = <<>> THEN @ ELSE datos[1],
            !.updated_at = TRUE]

\* Mutant: an update given up when its audit entry could not be written.
ActualizarEstudianteFinAuditado(ests, bit, en_uso, plan) ==
  LET log == LogUserAction(bit, en_uso, "estudiantes", plan.run, "UPDATE")
  IN  IF plan.run \notin RunsDe(ests)
      THEN [ests |-> ests, bitacora |-> log.bitacora, status |-> 400,
            error |-> "Error: StaleDataError"]
      ELSE IF ~log.ok
      THEN [ests |-> ests, bitacora |-> bit, status |-> 400,
            error |-> "Error: TimeoutError"]
      ELSE [ests |-> {IF e.run = plan.run
                      THEN EstudianteEscrito(e, plan.datos) ELSE e :
                        e \in ests},
            bitacora |-> log.bitacora, status |-> 200,
            error |-> "Estudiante actualizado exitosamente"]

\* log_user_action, whose result is not read, then the commit: UPDATE
\* estudiantes SET nombres, updated_at WHERE run = ...; a row deleted in
\* the meantime makes the UPDATE match nothing (StaleDataError), rolled
\* back and answered False.
ActualizarEstudianteFin(ests, bit, en_uso, plan) ==
  LET log == LogUserAction(bit, en_uso, "estudiantes", plan.run, "UPDATE")
  IN  IF plan.run \notin RunsDe(ests)
      THEN [ests |-> ests, bitacora |-> log.bitacora, status |-> 400,
            error |-> "Error: StaleDataError"]
      ELSE [ests |-> {IF e.run = plan.run
                      THEN EstudianteEscrito(e, plan.datos) ELSE e :
                        e \in ests},
            bitacora |-> log.bitacora, status |-> 200,
            error |-> "Estudiante actualizado exitosamente"]

ActualizarEstudianteCommit(p) ==
  /\ ses[p].pc = "body" /\ ses[p].op = "actualizar_estudiante"
  /\ LET r == ActualizarEstudianteFin(estudiantes, bitacora, EnUso(ses[p]),
                                      ses[p].plan)
     IN  EstCerrar(p, [ests |-> r.ests, docs |-> documentos,
                       proys |-> proyectos, exps |-> expedientes,
                       bitacora |-> r.bitacora, status |-> r.status,
                       error |-> r.error])

\* The ids of the live rows of documentos that belong to run.
DocumentosDe(docs, run) ==
  {i \in 1..Len(docs) : docs[i].id # NULL /\ docs[i].estudiante_run = run}

\* The ids of the live projects that have run as first or second author.
ProyectosBorrados(proys, run) ==
  {i \in 1..Len(proys) :
     /\ proys[i].id # NULL
     /\ run \in {proys[i].estudiante_run1, proys[i].estudiante_run2}}

\* eliminar_estudiante(run) up to session.delete, which loads the rows the
\* cascade reaches (documentos, proyectos_1, proyectos_2 and what each
\* project owns) and marks them deleted in the session.
EliminarEstudianteIniciar(p, run, sesion) ==
  /\ ses[p].pc = "idle"
  /\ LET op == "eliminar_estudiante"
         run_formateado == formatear_run(run)
     IN  IF FormatearRunError(run)
         THEN EstFin(RespuestaEst(op, 500, "IndexError", run))
         ELSE IF sesion # "ok"
         THEN EstFin(RespuestaEst(op, 400, "Error: OperationalError", run))
         ELSE IF run_formateado \notin RunsDe(estudiantes)
         THEN EstFin(RespuestaEst(op, 400, "no encontrado", run))
         ELSE EstAbrir(p, op,
                [run |-> run_formateado,
                 docs |-> DocumentosDe(documentos, run_formateado),
                 proys |-> ProyectosBorrados(proyectos, run_formateado)])

\* cascade="all, delete-orphan": the student's documents and projects,
\* and the expediente of each of those projects, are deleted with the
\* student.  A deleted row leaves its place in the table to the row of id
\* NULL, so that the ids of the others stay their positions.
BorrarDocumentos(docs, run) ==
  [i \in 1..Len(docs) |->
     IF docs[i].estudiante_run = run THEN NoDoc ELSE docs[i]]

BorrarProyectos(proys, run) ==
  [i \in 1..Len(proys) |->
     IF i \in ProyectosBorrados(proys, run) THEN NoProyecto ELSE proys[i]]

BorrarExpedientes(exps, proys, run) ==
  [i \in 1..Len(exps) |->
     IF exps[i].proyecto_id \in ProyectosBorrados(proys, run)
     THEN NoExpediente ELSE exps[i]]

\* A row that references the student and was not loaded by session.delete
\* (it was committed by another client since): the DELETE of the student
\* breaks its foreign key (PRAGMA foreign_keys=ON).
HijosNuevos(ests, docs, proys, plan) ==
  /\ plan.run \in RunsDe(ests)
  /\ \/ ~(DocumentosDe(docs, plan.run) \subseteq plan.docs)
     \/ ~(ProyectosBorrados(proys, plan.run) \subseteq plan.proys)

\* Mutant: a delete that takes the student's audit rows with it.
EliminarEstudianteFinConBitacora(ests, docs, proys, exps, bit, en_uso, plan) ==
  LET log == LogUserAction(bit, en_uso, "estudiantes", plan.run, "DELETE")
  IN  IF HijosNuevos(ests, docs, proys, plan)
      THEN [ests |-> ests, docs |-> docs, proys |-> proys, exps |-> exps,
            bitacora |-> log.bitacora, status |-> 400,
            error |-> "Error: IntegrityError"]
      ELSE
      [ests |-> {e \in ests : e.run # plan.run},
       docs |-> BorrarDocumentos(docs, plan.run),
       proys |-> BorrarProyectos(proys, plan.run),
       exps |-> BorrarExpedientes(exps, proys, plan.run),
       bitacora |-> SelectSeq(log.bitacora,
                              LAMBDA b : b.registro_id # plan.run),
       status |-> 200, error |-> "Estudiante eliminado"]

\* Mutant: a delete that leaves the projects of which the student is the
\* second author, and what they own, in place.
EliminarEstudianteFinPrimerAutor(ests, docs, proys, exps, bit, en_uso, plan) ==
  LET log == LogUserAction(bit, en_uso, "estudiantes", plan.run, "DELETE")
      soloPrimero ==
        [i \in 1..Len(proys) |->
           IF proys[i].estudiante_run2 = plan.run
           THEN [proys[i] EXCEPT !.estudiante_run1 = <<>>] ELSE proys[i]]
  IN  IF HijosNuevos(ests, docs, proys, plan)
      THEN [ests |-> ests, docs |-> docs, proys |-> proys, exps |-> exps,
            bitacora |-> log.bitacora, status |-> 400,
            error |-> "Error: IntegrityError"]
      ELSE
      [ests |-> {e \in ests : e.run # plan.run},
       docs |-> BorrarDocumentos(docs, plan.run),
       proys |-> [i \in 1..Len(proys) |->
                    IF proys[i].id # NULL /\ proys[i].estudiante_run1 = plan.run
                    THEN NoProyecto ELSE proys[i]],
       exps |-> BorrarExpedientes(exps, soloPrimero, plan.run),
       bitacora |-> log.bitacora, status |-> 200,
       error |-> "Estudiante eliminado"]

\* log_user_action, whose result is not read, then the commit: DELETE of
\* the rows loaded by session.delete and of the student.  A student deleted
\* in the meantime makes the DELETE match nothing, which is a warning and
\* not an error; a row that references the student and was not loaded
\* makes the DELETE of the student raise IntegrityError, rolled back and
\* answered False.
EliminarEstudianteFin(ests, docs, proys, exps, bit, en_uso, plan) ==
  LET log == LogUserAction(bit, en_uso, "estudiantes", plan.run, "DELETE")
  IN  IF HijosNuevos(ests, docs, proys, plan)
      THEN [ests |-> ests, docs |-> docs, proys |-> proys, exps |-> exps,
            bitacora |-> log.bitacora, status |-> 400,
            error |-> "Error: IntegrityError"]
      ELSE
      [ests |-> {e \in ests : e.run # plan.run},
       docs |-> BorrarDocumentos(docs, plan.run),
       proys |-> BorrarProyectos(proys, plan.run),
       exps |-> BorrarExpedientes(exps, proys, plan.run),
       bitacora |-> log.bitacora, status |-> 200,
       error |-> "Estudiante eliminado"]

EliminarEstudianteCommit(p) ==
  /\ ses[p].pc = "body" /\ ses[p].op = "eliminar_estudiante"
  /\ EstCerrar(p, EliminarEstudianteFin(estudiantes, documentos, proyectos,
                    expedientes, bitacora, EnUso(ses[p]), ses[p].plan))

EstOps == {"crear_estudiante", "actualizar_estudiante", "eliminar_estudiante"}

\* accion=... of the log_user_action call of each student function.
AccionDe(op) ==
  IF op = "crear_estudiante" THEN "CREATE"
  ELSE IF op = "actualizar_estudiante" THEN "UPDATE" ELSE "DELETE"

\* The flush or the commit raises (the database stays locked past
\* busy_timeout, or any other storage error): get_session_context rolls
\* back, closes and re-raises; the function's "except Exception" answers
\* (False, mensaje).  The flush comes before the call of log_user_action,
\* the commit after it (tras_bitacora).
EstFalla(p) ==
  /\ ses[p].pc = "body" /\ ses[p].op \in EstOps
  /\ \E tras_bitacora \in BOOLEAN :
       EstCerrar(p, [ests |-> estudiantes, docs |-> documentos,
                     proys |-> proyectos, exps |-> expedientes,
                     bitacora |->
                       IF tras_bitacora
                       THEN LogUserAction(bitacora, EnUso(ses[p]),
                                          "estudiantes", ses[p].plan.run,
                                          AccionDe(ses[p].op)).bitacora
                       ELSE bitacora,
                     status |-> 400,
                     error |-> IF ses[p].op = "crear_estudiante"
                               THEN "Error de base de datos: OperationalError"
                               ELSE "Error: OperationalError"])

\* ------------------------------------------------------------ SpecEst

\* The RUNs typed in: 11.111.111-1 (present from the start), 12345670-k and
\* its formatted form 12.345.670-K, a wrong check character, a short
\* string, a body with a superscript digit, a string of separators.
RunK == <<"1", "2", ".", "3", "4", "5", ".", "6", "7", "0", "-", "K">>
RunKCrudo == <<"1", "2", "3", "4", "5", "6", "7", "0", "-", "k">>
RunMalDv == <<"1", "1", ".", "1", "1", "1", ".", "1", "1", "1", "-", "2">>
RunCorto == <<"1", "-", "9">>
RunSuper == <<"1", "1", "1", "1", "1", "1", "1", Superindice, "-", "1">>
RunSeparadores == <<".", "-">>

RunsEstudiante ==
  {Run1, RunK, RunKCrudo, RunMalDv, RunCorto, RunSuper, RunSeparadores}

\* The RUNs of the requests that look a student up.
RunsBuscados == {Run1, RunKCrudo, RunSeparadores}

\* nombres typed in: " ENA ".
NombresEntrada == {<<" ", "E", "N", "A", " ">>}

\* One student with a document, a project and its expediente.  The audit
\* table is kept between runs of the program (init_database creates only
\* the tables that are missing): it starts with a row written earlier.
InitEst ==
  /\ estudiantes = {NuevoEstudiante(Run1, Nombre1)}
  /\ documentos = <<NuevoDocumento(<<>>, Run1, "acta", 1)>>
  /\ proyectos = <<NuevoProyecto(<<>>, Run1)>>
  /\ expedientes = <<NuevoExpediente(<<>>, 1)>>
  /\ bitacora = <<EntradaBitacora("estudiantes", Run1, "CREATE")>>
  /\ ses = [p \in Procs |-> Idle]
  /\ nextPath = 2
  /\ abiertas = 0
  /\ respuesta = Respuesta("", 0, "")

NextEst ==
  \/ \E p \in Procs, run \in RunsEstudiante, nombres \in NombresEntrada,
        sesion \in Sesiones :
       CrearEstudianteIniciar(p, run, nombres, sesion)
  \/ \E p \in Procs : CrearEstudianteCommit(p)
  \/ \E p \in Procs, run \in RunsBuscados,
        datos \in {<<>>} \cup {<<n>> : n \in NombresEntrada},
        sesion \in Sesiones :
       ActualizarEstudianteIniciar(p, run, datos, sesion)
  \/ \E p \in Procs : ActualizarEstudianteCommit(p)
  \/ \E p \in Procs, run \in RunsBuscados, sesion \in Sesiones :
       EliminarEstudianteIniciar(p, run, sesion)
  \/ \E p \in Procs : EliminarEstudianteCommit(p)
  \/ \E p \in Procs : EstFalla(p)

SpecEst == InitEst /\ [][NextEst]_vars

\* ------------------------------------------------------------ SpecAud

\* The business operations together over the database of InitEst: the
\* student operations, the document upsert and validation, the expediente
\* update, the bulk status change and the email batch.  One upload is left.
InitAud ==
  /\ estudiantes = {NuevoEstudiante(Run1, Nombre1)}
  /\ documentos = <<NuevoDocumento(<<>>, Run1, "acta", 1)>>
  /\ proyectos = <<NuevoProyecto(<<>>, Run1)>>
  /\ expedientes = <<NuevoExpediente(<<>>, 1)>>
  /\ bitacora = <<EntradaBitacora("estudiantes", Run1, "CREATE")>>
  /\ ses = [p \in Procs |-> Idle]
  /\ nextPath = Len(BaseDocs) + MaxUploads
  /\ abiertas = 0
  /\ respuesta = Respuesta("", 0, "")

NextAud ==
  \/ \E p \in Procs :
       CrearEstudianteIniciar(p, RunKCrudo,
                              CHOOSE n \in NombresEntrada : TRUE, "ok")
  \/ \E p \in Procs : CrearEstudianteCommit(p)
  \/ \E p \in Procs, datos \in {<<n>> : n \in NombresEntrada} :
       ActualizarEstudianteIniciar(p, Run1, datos, "ok")
  \/ \E p \in Procs : ActualizarEstudianteCommit(p)
  \/ \E p \in Procs : EliminarEstudianteIniciar(p, Run1, "ok")
  \/ \E p \in Procs : EliminarEstudianteCommit(p)
  \/ \E p \in Procs : EstFalla(p)
  \/ \E p \in Procs : SubirIniciar(p, "rest", Run1, "acta")
  \/ \E p \in Procs : SubirCommit(p)
  \/ \E p \in Procs : SubirFalla(p)
  \/ \E doc_id \in 1..Len(documentos) : Validar("rest", doc_id, TRUE)
  \/ \E doc_id \in 1..Len(documentos) : ValidarFalla("rest", doc_id)
  \/ ActualizarExpediente(1, "en_proceso", <<>>, <<TRUE>>)
  \/ \E donde \in LugaresDeFalla :
       ActualizarExpedienteFalla(1, "en_proceso", <<>>, <<TRUE>>, donde)
  \/ CambiarEstadoMasivo(<<Run1>>, "enviado")
  \/ EnviarBatch(<<Run1>>, FALSE, "ok", <<"ok">>)

SpecAud == InitAud /\ [][NextAud]_vars

\* ------------------------------------------------------------ SpecCascada

\* Two students, a document of each, and three projects with their
\* expedientes: one of Run1, one of Run2 with Run1 as second author, one of
\* Run2 alone.
InitCascada ==
  /\ estudiantes = {NuevoEstudiante(Run1, Nombre1), NuevoEstudiante(Run2, Nombre1)}
  /\ documentos = LET d1 == <<NuevoDocumento(<<>>, Run1, "acta", 1)>>
                  IN  Append(d1, NuevoDocumento(d1, Run2, "acta", 2))
  /\ proyectos = LET p1 == <<NuevoProyecto(<<>>, Run1)>>
                     p2 == Append(p1, [NuevoProyecto(p1, Run2)
                                         EXCEPT !.estudiante_run2 = Run1])
                 IN  Append(p2, NuevoProyecto(p2, Run2))
  /\ expedientes = LET e1 == <<NuevoExpediente(<<>>, 1)>>
                       e2 == Append(e1, NuevoExpediente(e1, 2))
                   IN  Append(e2, NuevoExpediente(e2, 3))
  /\ bitacora = <<>>
  /\ ses = [p \in Procs |-> Idle]
  /\ nextPath = Len(BaseDocs) + 1
  /\ abiertas = 0
  /\ respuesta = Respuesta("", 0, "")

\* Deletes of both students, uploads for both and the re-creation of the
\* first one, by two clients.
NextCascada ==
  \/ \E p \in Procs, run \in {Run1, Run2} :
       EliminarEstudianteIniciar(p, run, "ok")
  \/ \E p \in Procs : EliminarEstudianteCommit(p)
  \/ \E p \in Procs : EstFalla(p)
  \/ \E p \in Procs :
       CrearEstudianteIniciar(p, Run1, CHOOSE n \in NombresEntrada : TRUE, "ok")
  \/ \E p \in Procs : CrearEstudianteCommit(p)
  \/ \E p \in Procs, run \in {Run1, Run2}, tipo \in {"acta", "otro"} :
       SubirIniciar(p, "rest", run, tipo)
  \/ \E p \in Procs : SubirCommit(p)
  \/ \E p \in Procs : SubirFalla(p)

SpecCascada == InitCascada /\ [][NextCascada]_vars

\* ------------------------------------------------------------ SpecRun

\* The bodies: those of 7 and of 8 digits that differ from 1234567 and
\* 12345678 in their last LargoCola digits at most.
RECURSIVE Colas(_)
Colas(n) ==
  IF n = 0 THEN {<<>>}
  ELSE {Append(c, d) : c \in Colas(n - 1), d \in Rango(Digitos)}

CuerposBase ==
  {<<"1", "2", "3", "4", "5", "6", "7">>,
   <<"1", "2", "3", "4", "5", "6", "7", "8">>}

Cuerpos ==
  {SubSeq(b, 1, Len(b) - LargoCola) \o c :
     b \in CuerposBase, c \in Colas(LargoCola)}

\* The check characters typed: the digits, K in both cases and a letter
\* that is never one.
DvsEntrada == Rango(Digitos) \cup {"K", "k", "N"}

\* The ways a RUN is typed: 123456785, 12345678-5, 12.345.678-5 and with
\* blanks around.
Formas == {"plano", "guion", "puntos", "blancos"}

\* A body of 7 or 8 characters with the dots of the XX.XXX.XXX format.
ConPuntos(cuerpo) ==
  LET n == Len(cuerpo)
  IN  SubSeq(cuerpo, 1, n - 6) \o <<".">> \o SubSeq(cuerpo, n - 5, n - 3)
        \o <<".">> \o SubSeq(cuerpo, n - 2, n)

Escrito(cuerpo, dv, forma) ==
  IF forma = "plano" THEN Append(cuerpo, dv)
  ELSE IF forma = "guion" THEN cuerpo \o <<"-", dv>>
  ELSE IF forma = "puntos" THEN ConPuntos(cuerpo) \o <<"-", dv>>
  ELSE <<" ">> \o cuerpo \o <<"-", dv, " ">>

\* Strings that are no RUN: 15, 1-k, " 1.5 ", 5, the empty string and ".-".
Cortas ==
  {<<"1", "5">>, <<"1", "-", "k">>, <<" ", "1", ".", "5", " ">>, <<"5">>,
   <<>>, RunSeparadores}

\* The string given (run), the body and the check character it was written
\* from (empty for the strings that are no RUN), the function applied last
\* (op) and what it returned: valido and excepcion for validar_run, salida
\* for formatear_run, with antes the string it was applied to.
Llamada(op, run, cuerpo, dv) ==
  [op |-> op, run |-> run, cuerpo |-> cuerpo, dv |-> dv, valido |-> FALSE,
   excepcion |-> "", antes |-> <<>>, salida |-> <<>>]

InitRun ==
  /\ estudiantes = {}
  /\ documentos = <<>>
  /\ proyectos = <<>>
  /\ expedientes = <<>>
  /\ bitacora = <<>>
  /\ ses = [p \in Procs |-> Idle]
  /\ nextPath = 1
  /\ abiertas = 0
  /\ \/ \E cuerpo \in Cuerpos, dv \in DvsEntrada, forma \in Formas :
          respuesta = Llamada("entrada", Escrito(cuerpo, dv, forma), cuerpo, dv)
     \/ \E run \in Cortas : respuesta = Llamada("entrada", run, <<>>, "")

SoloRespuesta ==
  UNCHANGED <<estudiantes, documentos, proyectos, expedientes, bitacora, ses,
              nextPath, abiertas>>

\* validar_run(run) on the string given.
ValidarRun ==
  /\ respuesta.op = "entrada"
  /\ LET v == validar_run(respuesta.run)
     IN  respuesta' = [respuesta EXCEPT !.op = "validar_run",
                                        !.valido = v.valido,
                                        !.excepcion = v.excepcion]
  /\ SoloRespuesta

\* formatear_run(run) on the string given.
FormatearRun ==
  /\ respuesta.op = "entrada"
  /\ respuesta' =
       IF FormatearRunError(respuesta.run)
       THEN [respuesta EXCEPT !.op = "formatear_run",
                              !.excepcion = "IndexError"]
       ELSE [respuesta EXCEPT !.op = "formatear_run",
                              !.antes = respuesta.run,
                              !.salida = formatear_run(respuesta.run)]
  /\ SoloRespuesta

\* validar_run(formatear_run(run)).
ValidarFormateado ==
  /\ respuesta.op = "formatear_run" /\ respuesta.excepcion = ""
  /\ LET v == validar_run(respuesta.salida)
     IN  respuesta' = [respuesta EXCEPT !.op = "validar_formateado",
                                        !.valido = v.valido,
                                        !.excepcion = v.excepcion]
  /\ SoloRespuesta

\* formatear_run(formatear_run(run)).
Reformatear ==
  /\ respuesta.op = "formatear_run" /\ respuesta.excepcion = ""
  /\ respuesta' = [respuesta EXCEPT !.op = "reformatear",
                                    !.antes = respuesta.salida,
                                    !.salida = formatear_run(respuesta.salida)]
  /\ SoloRespuesta

NextRun == ValidarRun \/ FormatearRun \/ ValidarFormateado \/ Reformatear

SpecRun == InitRun /\ [][NextRun]_vars

\* ------------------------------------------------------------ claims

ChecklistRun1 == ObtenerChecklist(estudiantes, documentos, Run1)

TiposFinanzas == {"finanzas_titulo", "finanzas_licencia"}

\* The required entries of a checklist for the financial clearance.
EntradasFinanzas(r) ==
  {i \in 1..Len(r.checklist) :
     r.checklist[i].requerido /\ r.checklist[i].tipo \in TiposFinanzas}

\* Some FINANZAS_TITULO / FINANZAS_LICENCIA row of the student is validated.
FilaFinanzasValidada(docs, run) ==
  \E i \in 1..Len(docs) :
    /\ docs[i].estudiante_run = run
    /\ docs[i].tipo \in TiposFinanzas
    /\ docs[i].validado

SinFinanzas(docs) == SelectSeq(docs, LAMBDA d : d.tipo \notin TiposFinanzas)

\* C1: for every table of Document rows of the existing student, the
\* checklist has exactly one required financial-clearance entry, validated
\* iff some FINANZAS_TITULO / FINANZAS_LICENCIA row is validated; the
\* financial rows add at most 1 to the validated count; total_requeridos
\* is 5.
C1_FinanzasUnaVez ==
  LET r == ChecklistRun1
      F == EntradasFinanzas(r)
      sin == ObtenerChecklist(estudiantes, SinFinanzas(documentos), Run1)
  IN  /\ r.status = 200
      /\ Cardinality(F) = 1
      /\ \A i \in F :
           r.checklist[i].validado <=> FilaFinanzasValidada(documentos, Run1)
      /\ r.documentos_validados - sin.documentos_validados \in {0, 1}
      /\ r.total_requeridos = 5

\* The five required slots, by the tipo their checklist entry carries.
Slots == {"bienestar", "finanzas_titulo", "biblioteca", "sdt", "memorandum"}

SlotValidado(r, slot) ==
  \E i \in 1..Len(r.checklist) :
    /\ r.checklist[i].tipo = slot
    /\ r.checklist[i].requerido
    /\ r.checklist[i].validado

Listo(ests, docs) == ObtenerChecklist(ests, docs, Run1).listo_para_solicitar

C2_ListoSiiCinco ==
  LET r == ChecklistRun1
  IN  r.listo_para_solicitar <=> \A slot \in Slots : SlotValidado(r, slot)

\* The rows a step added or changed.
FilasCambiadas ==
  {i \in 1..Len(documentos') :
     i > Len(documentos) \/ documentos'[i] # documentos[i]}

C2_OpcionalNoCambia ==
  (/\ FilasCambiadas # {}
   /\ \A i \in FilasCambiadas : documentos'[i].tipo \notin RequeridosSet)
  => Listo(estudiantes', documentos') = Listo(estudiantes, documentos)

\* C2: listo_para_solicitar is true iff each of the five required slots is
\* validated, and a step that adds, re-uploads or validates only
\* non-required documents (ACTA, OTRO) leaves listo_para_solicitar as it was.
C2_Listo == [](C2_ListoSiiCinco) /\ [][C2_OpcionalNoCambia]_vars

\* C2 witness: ready for submission with a validated optional document.
C2_Witness ==
  /\ ChecklistRun1.listo_para_solicitar
  /\ \E i \in 1..Len(documentos) :
       documentos[i].tipo = "acta" /\ documentos[i].validado

\* The step in which client p's upsert commits.
SubirCommitDe(p) ==
  /\ ses[p].pc = "body" /\ ses[p].op = "subir"
  /\ ses'[p].pc = "idle"
  /\ respuesta'.status = 200

\* C3: when an upsert for (student, category) commits, from any of the
\* three entry points, every row of that student and category has the new
\* storage path and validado = false.
C3_FilaReiniciada ==
  [][\A p \in Procs :
       SubirCommitDe(p) =>
         \A i \in 1..Len(documentos') :
           (/\ documentos'[i].estudiante_run = ses[p].plan.run
            /\ documentos'[i].tipo = ses[p].plan.tipo)
           => (/\ documentos'[i].path = ses[p].plan.path
               /\ documentos'[i].validado = FALSE)]_vars

\* The row written: when an upsert commits, the row it wrote (the
\* first one found for the student and category, or the one inserted) has
\* the new storage path and validado = false.
SubirReiniciaFilaEscrita ==
  [][\A p \in Procs :
       SubirCommitDe(p) =>
         LET id == IdSubido(documentos, ses[p].plan)
         IN  /\ id \in 1..Len(documentos')
             /\ documentos'[id].estudiante_run = ses[p].plan.run
             /\ documentos'[id].tipo = ses[p].plan.tipo
             /\ documentos'[id].path = ses[p].plan.path
             /\ documentos'[id].validado = FALSE]_vars

\* The checklist statement restricted to tables with at most one row per
\* (student, category).
SinDuplicados ==
  \A i, j \in 1..Len(documentos) :
    (documentos[i].estudiante_run = documentos[j].estudiante_run
     /\ documentos[i].tipo = documentos[j].tipo) => i = j

ChecklistSinDuplicados == SinDuplicados => C1_FinanzasUnaVez

\* The step in which client p's upsert ends, with or without success.
SubirFinDe(p) ==
  /\ ses[p].pc = "body" /\ ses[p].op = "subir"
  /\ ses'[p].pc = "idle"

\* C5: when overlapping upserts of the same student and category end, each
\* one either fails and leaves the table as it was, or applies on top of
\* the state committed so far: the table after its commit is the one the
\* upsert gives when its read is taken on that committed state.
C5_SinActualizacionPerdida ==
  [][\A p \in Procs :
       SubirFinDe(p) =>
         LET plan == ses[p].plan
         IN  \/ respuesta'.status # 200 /\ documentos' = documentos
             \/ /\ respuesta'.status = 200
                /\ documentos' =
                     AplicarSubir(documentos,
                       PlanSubir(documentos, plan.run, plan.tipo, plan.path))]_vars

\* The step in which client p's block ends with an exception raised in its
\* body or by its commit.
BloqueFallaDe(p) ==
  /\ ses[p].pc = "body"
  /\ ses'[p].pc = "idle"
  /\ respuesta'.status # 200

\* The storage paths held by the rows of a table.
Paths(docs) == {docs[i].path : i \in 1..Len(docs)}

\* C4: when a get_session_context block that holds pending writes ends
\* with an exception, no table is changed by that step and the exception
\* reaches the caller; a storage path appears in the table only in a step
\* that reports success, so the writes of a failed block are never visible
\* later.
C4_RollbackSinCambios ==
  [][/\ \A p \in Procs :
          BloqueFallaDe(p) =>
            /\ ses[p].plan.kind \in {"update", "insert"}
            /\ documentos' = documentos
            /\ <<estudiantes, proyectos, expedientes, bitacora>>' =
                 <<estudiantes, proyectos, expedientes, bitacora>>
            /\ respuesta' = Respuesta(ses[p].op, 500, "cuerpo")
     /\ Paths(documentos') # Paths(documentos) => respuesta'.status = 200]_vars

\* C4 witness: the only upload so far failed after its write and the table
\* is the initial one.
C4_Witness ==
  /\ respuesta = Respuesta("subir", 500, "cuerpo")
  /\ nextPath = Len(BaseDocs) + 2
  /\ documentos = BaseDocs

C6_Paso(p) ==
  \* the lock error leaves get_session only at the last attempt
  /\ (ses[p].pc = "probe" /\ ses'[p].pc = "idle"
      /\ respuesta'.error = "bloqueada") => ses[p].intentos = MaxRetries
  \* a lock failure at the last attempt is not retried
  /\ (ses[p].pc = "probe" /\ ses'[p].pc = "espera")
       => ses[p].intentos < MaxRetries
  \* a retry is one more attempt
  /\ (ses[p].pc = "espera" /\ ses'[p].pc # "espera")
       => (ses'[p].pc = "probe" /\ ses'[p].intentos = ses[p].intentos + 1)
  \* a probe that succeeds, at whatever attempt, hands its session over
  /\ (ses[p].pc = "probe" /\ ses'[p].pc = "body")
       => (abiertas' = abiertas /\ ses'[p].intentos = ses[p].intentos)

C7_SesionesCerradas ==
  /\ abiertas = Cardinality({p \in Procs : ses[p].pc \in {"probe", "body"}})
  /\ (\A p \in Procs : ses[p].pc = "idle") => abiertas = 0

\* The entries of a bulk request that have no project or no expediente.
SinExpediente(runs) ==
  {i \in 1..Len(runs) :
     \A j \in 1..Len(proyectos) :
       proyectos[j].estudiante_run1 = runs[i]
         => ExpedienteDeProyecto(expedientes, proyectos[j].id).id = NULL}

\* C8: a bulk status change over a list with an entry that has no project
\* or no expediente completes: the expediente of every other entry has the
\* target status, the entry is reported as skipped, and updated + skipped
\* is the length of the list.
C8_MasivoParcial ==
  (/\ respuesta.op = "cambiar_estado"
   /\ respuesta.estado \in EstadoExpediente
   /\ SinExpediente(respuesta.runs) # {})
  => /\ respuesta.status = 200
     /\ \A i \in 1..Len(respuesta.runs) : \A j \in 1..Len(proyectos) :
          proyectos[j].estudiante_run1 = respuesta.runs[i] =>
            LET e == ExpedienteDeProyecto(expedientes, proyectos[j].id)
            IN  e.id # NULL => e.estado = respuesta.estado
     /\ "omitidos" \in DOMAIN respuesta
     /\ respuesta.actualizados + Cardinality(SinExpediente(respuesta.runs))
          = Len(respuesta.runs)

\* C9: an expediente with titulado = true has estado = TITULADO.
C9_TituladoImplicaEstado ==
  \A i \in 1..Len(expedientes) :
    expedientes[i].titulado => expedientes[i].estado = "titulado"

\* The expedientes a step changed.
ExpedientesCambiados ==
  {i \in 1..Len(expedientes) : expedientes'[i] # expedientes[i]}

\* The runs of the first author of the project of expediente i.
RunDeExpediente(i) ==
  {proyectos[j].estudiante_run1 :
     j \in {k \in 1..Len(proyectos) : proyectos[k].id = expedientes[i].proyecto_id}}

ProyectosDe(run) ==
  SelectSeq(proyectos, LAMBDA pr : pr.estudiante_run1 = run)

C12_SetValidation ==
  [][\A entry \in EntradasValidar, id \in 1..(Len(documentos) + 1),
        v \in BOOLEAN :
       LET r == ValidarDocumento(documentos, entry, id, v)
       IN  (/\ respuesta' = Respuesta("validar", r.status, "")
            /\ documentos' = r.docs)
           => IF id \in 1..Len(documentos)
              THEN /\ respuesta'.status = 200
                   /\ Len(documentos') = Len(documentos)
                   /\ documentos'[id].validado = v
                   /\ documentos'[id].validated_at = v
                   /\ documentos'[id].validated_by = v
                   /\ \A j \in 1..Len(documentos) :
                        j # id => documentos'[j] = documentos[j]
              ELSE /\ respuesta'.status = 404
                   /\ documentos' = documentos]_vars

\* Setting status t with actualizar_expediente on an existing expediente,
\* whatever its current status, answers 200 and leaves it in status t.
TransicionLibreActualizar ==
  \A t \in EstadoExpediente, id \in 1..Len(expedientes) :
    LET r == ActualizarExpedienteRes(expedientes, id, t, <<>>, <<>>)
    IN  (/\ respuesta' = Respuesta("actualizar_expediente", r.status, "")
         /\ expedientes' = r.exps)
        => (r.status = 200 /\ expedientes'[id].estado = t)

\* Setting status t in bulk on students that have an expediente, whatever
\* its current status, answers 200 and leaves each in status t.
TransicionLibreMasivo ==
  (respuesta'.op = "cambiar_estado"
   /\ respuesta'.estado \in EstadoExpediente)
  => \A i \in 1..Len(respuesta'.runs) :
       LET e  == ExpedienteDeProyecto(expedientes,
                   ProyectoMasReciente(ProyectosDe(respuesta'.runs[i])).id)
       IN  e.id # NULL =>
             (respuesta'.status = 200
              /\ expedientes'[e.id].estado = respuesta'.estado)

\* C13 (one expediente at a time): every transition (s, t) made with
\* actualizar_expediente succeeds.
TransicionesActualizar == [][TransicionLibreActualizar]_vars

\* C13: for every pair of statuses (s, t), setting t on an existing
\* expediente in status s, with actualizar_expediente or with the bulk
\* status change, succeeds and leaves the expediente in t.
C13_TransicionesLibres ==
  [][TransicionLibreActualizar /\ TransicionLibreMasivo]_vars

EstTermina(p) ==
  ses[p].pc = "body" /\ ses[p].op \in EstOps /\ ses'[p] = Idle

\* The audit write of p's open student operation fails.
BitacoraFalla(p) ==
  ~LogUserAction(bitacora, EnUso(ses[p]), "estudiantes", ses[p].plan.run,
                 "").ok

\* The answers for an exception raised by the storage.
ErroresDeAlmacenamiento ==
  {"Error de base de datos: OperationalError",
   "Error de base de datos: IntegrityError",
   "Error: OperationalError", "Error: StaleDataError",
   "Error: IntegrityError"}

\* The write planned by p's student operation is in the table after the
\* step.
EstEscrito(p) ==
  LET plan == ses[p].plan
  IN  /\ ses[p].op = "crear_estudiante" =>
           NuevoEstudiante(plan.run, plan.nombres) \in estudiantes'
      /\ ses[p].op = "actualizar_estudiante" =>
           \E e \in estudiantes :
             e.run = plan.run /\ EstudianteEscrito(e, plan.datos) \in estudiantes'
      /\ ses[p].op = "eliminar_estudiante" =>
           plan.run \notin RunsDe(estudiantes')

\* C15: when the audit write fails inside crear_estudiante,
\* actualizar_estudiante or eliminar_estudiante and the storage raises
\* nothing, the operation answers success and its write is committed.
C15_FallaDeBitacoraTragada ==
  [][\A p \in Procs :
       (EstTermina(p) /\ BitacoraFalla(p)
        /\ respuesta'.error \notin ErroresDeAlmacenamiento)
       => (respuesta'.status = 200 /\ EstEscrito(p))]_vars

\* C15 witness: a student was created and updated with success while the
\* audit table received nothing.
C15_Witness ==
  /\ respuesta.op = "actualizar_estudiante" /\ respuesta.status = 200
  /\ \E e \in estudiantes : e.run = RunK /\ e.updated_at
  /\ Len(bitacora) = 1

\* C16: over the business operations every audit entry stays where it is
\* with the values it has; the audit table only grows.
C16_BitacoraSoloCrece ==
  [][/\ Len(bitacora') >= Len(bitacora)
     /\ \A i \in 1..Len(bitacora) : bitacora'[i] = bitacora[i]]_vars

\* C16 witness: the student named by an audit entry was deleted and the
\* entry is still there.
C16_Witness ==
  /\ respuesta.op = "eliminar_estudiante" /\ respuesta.status = 200
  /\ Run1 \notin RunsDe(estudiantes)
  /\ \E i \in 1..Len(bitacora) : bitacora[i].registro_id = Run1

\* C17: every step that changes a student, document or expediente row
\* appends an audit entry that names one of those tables.
C17_MutacionAuditada ==
  [][(estudiantes' # estudiantes \/ documentos' # documentos
      \/ expedientes' # expedientes)
     => /\ Len(bitacora') > Len(bitacora)
        /\ bitacora'[Len(bitacora')].tabla \in
             {"estudiantes", "documentos", "expedientes"}]_vars

\* Every student row has a RUN that validates and is in formatted form,
\* and no two rows share a RUN.
EstudiantesCanonicos ==
  /\ \A e \in estudiantes :
       validar_run(e.run).valido /\ formatear_run(e.run) = e.run
  /\ \A e1, e2 \in estudiantes : e1.run = e2.run => e1 = e2

\* A call of crear_estudiante that ended before it added a row answers for
\* the RUN it was given; one that ended at its commit, for the formatted
\* RUN of its plan.
CrearTerminaSinFila == respuesta'.op = "crear_estudiante" /\ ses' = ses

CrearTerminaEnCommit(p) == EstTermina(p) /\ ses[p].op = "crear_estudiante"

Rechazado ==
  /\ respuesta'.status = 400 /\ respuesta'.error # ""
  /\ estudiantes' = estudiantes

\* A create whose RUN does not validate, or whose formatted RUN is in the
\* table, is answered (False, mensaje) and leaves the table as it is.
CrearRechazado ==
  /\ (/\ CrearTerminaSinFila
      /\ \/ ~validar_run(respuesta'.run).valido
         \/ formatear_run(respuesta'.run) \in RunsDe(estudiantes))
     => Rechazado
  /\ \A p \in Procs :
       (CrearTerminaEnCommit(p) /\ ses[p].plan.run \in RunsDe(estudiantes))
       => Rechazado

\* The same for the creates whose validation returns.
CrearRechazadoSiRetorna ==
  /\ (/\ CrearTerminaSinFila
      /\ validar_run(respuesta'.run).excepcion = ""
      /\ \/ ~validar_run(respuesta'.run).valido
         \/ formatear_run(respuesta'.run) \in RunsDe(estudiantes))
     => Rechazado
  /\ \A p \in Procs :
       (CrearTerminaEnCommit(p) /\ ses[p].plan.run \in RunsDe(estudiantes))
       => Rechazado

CrearValidadoSiRetorna ==
  []EstudiantesCanonicos /\ [][CrearRechazadoSiRetorna]_vars

\* C18: every student row has a validated RUN in formatted form, one row
\* per RUN, and a create with a RUN that fails validation or is already
\* present is rejected with a reason and changes no student row.
C18_CrearValidado == []EstudiantesCanonicos /\ [][CrearRechazado]_vars

\* C19: when validar_run accepts a string it accepts the formatted string
\* too, and formatting the formatted string of an input with a body
\* character and a check character returns it unchanged.
C19_FormatoEstable ==
  /\ (respuesta.op = "validar_formateado"
      /\ validar_run(respuesta.run).valido) => respuesta.valido
  /\ (respuesta.op = "reformatear" /\ Len(RunLimpio(respuesta.run)) >= 2)
     => respuesta.salida = respuesta.antes

\* C19 witness: a valid RUN typed without dots, with a lower-case k and
\* blanks around was formatted twice, and the formatted string differs from
\* what was typed.
C19_Witness ==
  /\ respuesta.op = "reformatear"
  /\ validar_run(respuesta.run).valido
  /\ respuesta.dv = "k" /\ respuesta.run[1] = " "
  /\ respuesta.salida # respuesta.run

\* The sum of the digits of the body, taken from the right, times the
\* weights 2, 3, 4, 5, 6, 7, 2, 3, ...
RECURSIVE SumaPonderada(_, _)
SumaPonderada(cuerpo, i) ==
  IF i = Len(cuerpo) THEN 0
  ELSE IntDe(cuerpo[Len(cuerpo) - i]) * (2 + (i % 6))
         + SumaPonderada(cuerpo, i + 1)

DvEsperado(cuerpo) ==
  LET remainder == SumaPonderada(cuerpo, 0) % 11
  IN  IF remainder = 0 THEN "0"
      ELSE IF remainder = 1 THEN "K"
      ELSE Digitos[(11 - remainder) + 1]

\* C20: for a body of 7 or 8 digits validar_run accepts the check character
\* of the weighted sum modulo 11 ("0" for remainder 0, "K" or "k" for 1,
\* the digit 11 - remainder otherwise) and no other; body 12345678 is
\* accepted with "5" only.
C20_DigitoVerificador ==
  (respuesta.op = "validar_run" /\ respuesta.cuerpo # <<>>)
  => /\ Len(respuesta.cuerpo) \in {7, 8}
     /\ respuesta.excepcion = ""
     /\ respuesta.valido <=>
          \/ respuesta.dv = DvEsperado(respuesta.cuerpo)
          \/ respuesta.dv = "k" /\ DvEsperado(respuesta.cuerpo) = "K"
     /\ respuesta.cuerpo = <<"1", "2", "3", "4", "5", "6", "7", "8">>
        => (respuesta.valido <=> respuesta.dv = "5")

\* C20 witness: 12345678-5 was accepted.
C20_Witness ==
  /\ respuesta.op = "validar_run" /\ respuesta.valido
  /\ respuesta.cuerpo = <<"1", "2", "3", "4", "5", "6", "7", "8">>
  /\ respuesta.dv = "5"

ChecklistAusente == ObtenerChecklist(estudiantes, documentos, RunAusente)

\* C21: the checklist computed for a RUN that has no student row is a
\* checklist and not an error: its five required entries have no document
\* and are not validated, and listo_para_solicitar is false.
C21_AusenteTodoFaltante ==
  LET r == ChecklistAusente
  IN  /\ RunAusente \notin RunsDe(estudiantes)
      /\ r.status = 200
      /\ Len(r.checklist) = 5
      /\ \A i \in 1..Len(r.checklist) :
           /\ r.checklist[i].requerido
           /\ ~r.checklist[i].tiene_documento
           /\ ~r.checklist[i].validado
      /\ ~r.listo_para_solicitar

\* The readiness check for a RUN that has no student row answers false and
\* raises nothing.
ListoAusenteFalso == ~VerificarEstudianteListo(documentos, RunAusente)
\* The rows of the business tables.
TablasDeNegocio == <<estudiantes, documentos, proyectos, expedientes>>

\* C22: a step in which a mutating operation answers an error leaves every
\* business table as it was, and a step in which a student operation or a
\* document upsert answers success leaves its planned write in the table.
C22_TodoONada ==
  [][/\ respuesta'.status # 200 => TablasDeNegocio' = TablasDeNegocio
     /\ \A p \in Procs :
          /\ (EstTermina(p) /\ respuesta'.status = 200) => EstEscrito(p)
          /\ SubirCommitDe(p) =>
               documentos'[IdSubido(documentos, ses[p].plan)].path =
                 ses[p].plan.path]_vars

\* The same without the answers given for an exception raised after the
\* commit of actualizar_expediente.
TodoONadaSinRecarga ==
  [][/\ (respuesta'.status # 200 /\ respuesta'.error # "recarga")
          => TablasDeNegocio' = TablasDeNegocio
     /\ \A p \in Procs :
          /\ (EstTermina(p) /\ respuesta'.status = 200) => EstEscrito(p)
          /\ SubirCommitDe(p) =>
               documentos'[IdSubido(documentos, ses[p].plan)].path =
                 ses[p].plan.path]_vars

\* C23: no two Document rows have the same student and category.
C23_UnaFilaPorCategoria ==
  \A i, j \in 1..Len(documentos) :
    (/\ documentos[i].id # NULL /\ documentos[j].id # NULL
     /\ documentos[i].estudiante_run = documentos[j].estudiante_run
     /\ documentos[i].tipo = documentos[j].tipo) => i = j

\* An upsert that commits on the table it read inserts no second row for
\* its pair.
SubirSinSolapeNoDuplica ==
  [][\A p \in Procs :
       (/\ SubirCommitDe(p)
        /\ ses[p].plan = PlanSubir(documentos, ses[p].plan.run,
                                   ses[p].plan.tipo, ses[p].plan.path)
        /\ C23_UnaFilaPorCategoria)
       => C23_UnaFilaPorCategoria']_vars
\* The step in which client p's eliminar_estudiante commits.
EliminarCommitDe(p) ==
  /\ EstTermina(p) /\ ses[p].op = "eliminar_estudiante"
  /\ respuesta'.status = 200

\* No live document, project or expediente refers to run or to a project
\* in borrados.
SinReferencias(docs, proys, exps, run, borrados) ==
  /\ \A i \in 1..Len(docs) :
       docs[i].id # NULL => docs[i].estudiante_run # run
  /\ \A i \in 1..Len(proys) :
       proys[i].id # NULL =>
         (proys[i].estudiante_run1 # run /\ proys[i].estudiante_run2 # run)
  /\ \A i \in 1..Len(exps) :
       exps[i].id # NULL => exps[i].proyecto_id \notin borrados

\* Every live document and project names a student of the table and every
\* live expediente a live project.
IntegridadReferencial ==
  /\ \A i \in 1..Len(documentos) :
       documentos[i].id # NULL =>
         documentos[i].estudiante_run \in RunsDe(estudiantes)
  /\ \A i \in 1..Len(proyectos) :
       proyectos[i].id # NULL =>
         /\ proyectos[i].estudiante_run1 \in RunsDe(estudiantes)
         /\ proyectos[i].estudiante_run2 \in RunsDe(estudiantes) \cup {<<>>}
  /\ \A i \in 1..Len(expedientes) :
       expedientes[i].id # NULL =>
         /\ expedientes[i].proyecto_id \in 1..Len(proyectos)
         /\ proyectos[expedientes[i].proyecto_id].id # NULL

FilaCoherente(d) ==
  /\ d.validado => (d.validated_at /\ d.validated_by)
  /\ ~d.validado => (~d.validated_at /\ ~d.validated_by)

\* C26: every Document row has validated_at and validated_by set when
\* validado is true and neither of them set when validado is false.
C26_ValidacionCoherente ==
  \A i \in 1..Len(documentos) :
    documentos[i].id # NULL => FilaCoherente(documentos[i])

\* A validation through PUT /api/documentos/{id}/validar leaves the row it
\* wrote coherent; every other row is as it was.
ValidarRestCoherente ==
  [][respuesta' = Respuesta("validar", 200, "") =>
       \A i \in 1..Len(documentos) :
         documentos'[i] # documentos[i] => FilaCoherente(documentos'[i])]_vars

\* The audit entries a step appended.
BitacoraNueva == {k \in 1..Len(bitacora') : k > Len(bitacora)}

C28_BitacoraObtieneConexion ==
  [][\A p \in Procs :
       (EstTermina(p) /\ respuesta'.status = 200)
       => /\ ~BitacoraFalla(p)
          /\ Len(bitacora') = Len(bitacora) + 1
          /\ bitacora'[Len(bitacora')].registro_id = ses[p].plan.run]_vars

MaxExtras == 2

\* The categories of the added rows: both financial variants, a category
\* that BaseDocs already holds (a duplicate) and an optional one.
TiposListo == {"finanzas_titulo", "finanzas_licencia", "bienestar", "acta"}

\* An added row of Run1: its category, whether it is validated and
\* whether it has a file (Documento.path is nullable).
FilasExtra ==
  [tipo : TiposListo, validado : BOOLEAN, con_archivo : BOOLEAN]

\* BaseDocs followed by the rows of extras, ids in table order.
TablaListo(extras) ==
  BaseDocs \o
  [k \in 1..Len(extras) |->
     [id |-> Len(BaseDocs) + k, estudiante_run |-> Run1,
      tipo |-> extras[k].tipo,
      path |-> IF extras[k].con_archivo THEN Len(BaseDocs) + k ELSE NULL,
      validado |-> extras[k].validado,
      validated_at |-> extras[k].validado,
      validated_by |-> extras[k].validado]]

\* What a readiness request returned: listo is the boolean, error is
\* "except" when it comes from the bare except of
\* verificar_estudiante_listo.
RespuestaListo(op, status, error, run, listo) ==
  [op |-> op, status |-> status, error |-> error, run |-> run,
   listo |-> listo]

\* verificar_estudiante_listo(run), as called for each RUN of
\* GET /api/estudiantes/checklist-status: any exception, the storage's
\* included, is answered False.
VerificarListo(run, sesion) ==
  /\ respuesta' =
       IF sesion # "ok"
       THEN RespuestaListo("verificar_estudiante_listo", 200, "except", run,
                           FALSE)
       ELSE RespuestaListo("verificar_estudiante_listo", 200, "", run,
                           VerificarEstudianteListo(documentos, run))
  /\ UNCHANGED <<estudiantes, documentos, proyectos, expedientes, bitacora,
                 ses, nextPath, abiertas>>

\* GET /api/documentos/checklist/{run}: 500 for an exception of the
\* storage, 404 for a RUN with no student, else the summary's
\* listo_para_solicitar.
ChecklistListo(run, sesion) ==
  /\ LET r == ObtenerChecklist(estudiantes, documentos, run)
     IN  respuesta' =
           IF sesion # "ok"
           THEN RespuestaListo("checklist", 500, "OperationalError", run,
                               FALSE)
           ELSE IF r.status # 200
           THEN RespuestaListo("checklist", r.status, "", run, FALSE)
           ELSE RespuestaListo("checklist", 200, "", run,
                               r.listo_para_solicitar)
  /\ UNCHANGED <<estudiantes, documentos, proyectos, expedientes, bitacora,
                 ses, nextPath, abiertas>>

\* Two students, the second without documents; the table is any of the
\* tables of TablaListo.
InitListo ==
  /\ estudiantes = {NuevoEstudiante(Run1, Nombre1),
                    NuevoEstudiante(Run2, Nombre1)}
  /\ \E extras \in SeqsHasta(FilasExtra, MaxExtras) :
       documentos = TablaListo(extras)
  /\ proyectos = <<>>
  /\ expedientes = <<>>
  /\ bitacora = <<>>
  /\ ses = [p \in Procs |-> Idle]
  /\ nextPath = Len(documentos) + 1
  /\ abiertas = 0
  /\ respuesta = Respuesta("", 0, "")

NextListo ==
  \/ \E run \in {Run1, Run2, RunAusente}, sesion \in Sesiones :
       VerificarListo(run, sesion)
  \/ \E run \in {Run1, Run2, RunAusente}, sesion \in Sesiones :
       ChecklistListo(run, sesion)

SpecListo == InitListo /\ [][NextListo]_vars

\* C30: for an existing student, the boolean that
\* verificar_estudiante_listo computes from the student's rows and the
\* listo_para_solicitar that obtener_checklist_estudiante computes from
\* the same rows are equal, whichever of the two was asked.
C30_ListosCoinciden ==
  /\ (/\ respuesta.op = "verificar_estudiante_listo"
      /\ respuesta.error = ""
      /\ respuesta.run \in RunsDe(estudiantes))
     => respuesta.listo =
          ObtenerChecklist(estudiantes, documentos,
                           respuesta.run).listo_para_solicitar
  /\ (respuesta.op = "checklist" /\ respuesta.status = 200)
     => respuesta.listo = VerificarEstudianteListo(documentos, respuesta.run)

\* C30 witness: verificar_estudiante_listo answered true for a student
\* with two rows of finanzas_titulo, the later one validated and without
\* a file.
C30_Witness ==
  /\ respuesta.op = "verificar_estudiante_listo"
  /\ respuesta.run = Run1 /\ respuesta.listo
  /\ \E i, j \in 1..Len(documentos) :
       /\ i < j
       /\ documentos[i].estudiante_run = Run1
       /\ documentos[j].estudiante_run = Run1
       /\ documentos[i].tipo = "finanzas_titulo"
       /\ documentos[j].tipo = "finanzas_titulo"
       /\ ~documentos[i].validado
       /\ documentos[j].validado /\ documentos[j].path = NULL

=============================================================================
